---- MODULE Spec2Model ----
(***************************************************************************)
(* A model of rs_syslog_viewer's core: the chunked line store              *)
(* (LogFileContent), the rotation manager with its skip-link caching       *)
(* filtered iterator (RotatedLog, FilteredIter), the k-way merge (LogHub), *)
(* the pause/resume guard, the line readers and LogFile::update.           *)
(*                                                                         *)
(* usize values are written as their two's-complement signed residue: a    *)
(* negative integer r stands for 2^64 + r (usize::MAX is -1).  Addition,   *)
(* subtraction and the `as isize` cast are then plain integer operations;  *)
(* only comparisons and saturating_sub need care.                          *)
(***************************************************************************)
EXTENDS Integers, Sequences, FiniteSets, TLC

VARIABLES
  logs,      \* LogHub.logs: the RotatedLogs, each a sequence of LogFiles
  tags,      \* TagsData.hashed_tags: tag -> enabled
  ver,       \* TagsData.ver
  res,       \* the result of the last traversal (what the caller collected)
  warm,      \* the traversals already made since the filter last changed
  disk,      \* the directory: rotation suffix (0: name.log) -> file, 0 if none
  fsize,     \* file -> the number of lines it holds on disk
  log_files, \* RotatedLog.log_files of the log under rotation
  want_older_log,  \* RotatedLog.want_older_log
  nrot,      \* rotations made so far
  hub_logs,  \* LogHub.logs while the hub holds them (empty while tasks have them)
  tasks,     \* the update tasks behind LogHub.log_handles
  stop_token,   \* LogHub.stop_token
  cancelled, \* the tokens cancelled so far
  main,      \* where the hub's owner is: "running", "stopping" (in data()), "guard"
  file_bytes,  \* the bytes of the file a TailReader follows
  states,    \* TailReader.head_state and tail_state
  tx,        \* the events in the reader's channel
  received,  \* the events taken out of the channel so far
  reads,     \* the read future of each direction
  tail_watch,  \* the watcher of the tail task: a change is notified; bytes appended since start()
  channels,  \* the events in the channel of each file's reader
  lfiles,    \* the LogFiles of one RotatedLog: content, path, removed
  data_board,  \* the tags of the DataBoard and who holds its lock
  updates,   \* the LogFile::update future of each file
  utask,     \* the log's update task: "idle", "updating", "stopped", and its stops
  pages_stack,  \* Pager.pages_stack, the front first
  matcher    \* a TimeMatcher: its condition, the timestamp last asked about, the answer

storeVars == <<logs, tags, ver, res, warm>>
rotVars == <<disk, fsize, log_files, want_older_log, nrot>>
guardVars == <<hub_logs, tasks, stop_token, cancelled, main>>
readVars == <<file_bytes, states, tx, received, reads, tail_watch>>
updVars == <<channels, lfiles, data_board, updates, utask>>
uiVars == <<pages_stack, matcher>>
vars == <<storeVars, rotVars, guardVars, readVars, updVars, uiVars>>

\* what an operation on the store leaves alone
restOfStore == <<rotVars, guardVars, readVars, updVars, uiVars>>
\* what an operation on the log under rotation leaves alone
restOfRot == <<logs, ver, res, warm, guardVars, readVars, updVars, uiVars>>
\* what an operation of the guard discipline leaves alone
restOfGuard == <<storeVars, rotVars, readVars, updVars, uiVars>>
\* what a step of a reader leaves alone
restOfRead == <<storeVars, rotVars, guardVars, updVars, uiVars>>
\* what a step of a log's update leaves alone
restOfUpd == <<storeVars, rotVars, guardVars, readVars, uiVars>>
\* what an operation of the pager leaves alone
restOfUi == <<storeVars, rotVars, guardVars, readVars, updVars>>

\* ------------------------------------------------------------- bounds
ChunkCapacity == 2      \* chunk_capacity of the model's LogFileContent
MaxLines == 3           \* lines held by one RotatedLog
MaxFiles == 2           \* files held by one RotatedLog
MaxVer == 2             \* the tag version is bumped at most up to this
MaxOut == 12            \* a traversal that yields more than this is cut
NumLogs == 2            \* logs of the hub
HubLines == 3           \* lines held by the hub's logs together
HubMaxVer == 1          \* the tag controller runs at most this often
MaxSuffix == 2          \* logrotate keeps name.log.1 .. name.log.MaxSuffix
MaxFileLines == 1       \* lines of a file on disk
MaxRotations == 2       \* rotations made at most
MaxTokens == 3          \* stop tokens created at most
MaxUpdates == 2         \* updates a log takes at most
MaxBytes == 5           \* bytes of the file a reader follows
MaxDrops == 1           \* read futures dropped per direction
MaxStill == 7           \* bytes of a file that is read while nobody writes it
NumFiles == 2           \* files the updated RotatedLog holds
MaxEvents == 2          \* events the reader of a file sends
MaxStops == 1           \* times the hub stops the update task

Tags == {"ta", "tb"}
Stamps == {1, 2}

\* ------------------------------------------------------------- evaluation
\* F applied to the values of its arguments, each computed once (an operator's
\* argument is otherwise computed again wherever the operator's body uses it).
Eval1(a, F(_)) == CHOOSE r \in {F(x) : x \in {a}} : TRUE
Eval2(a, b, F(_, _)) == CHOOSE r \in {F(x[1], x[2]) : x \in {<<a, b>>}} : TRUE
Eval3(a, b, c, F(_, _, _)) == CHOOSE r \in {F(x[1], x[2], x[3]) : x \in {<<a, b, c>>}} : TRUE
Eval5(a, b, c, d, e, F(_, _, _, _, _)) ==
  CHOOSE r \in {F(x[1], x[2], x[3], x[4], x[5]) : x \in {<<a, b, c, d, e>>}} : TRUE

\* ------------------------------------------------------------- LogLine
NoLink == [ver |-> 0, skip |-> 0]

GoodLine(ts, tag, id) ==
  [good |-> TRUE, ts |-> ts, tag |-> tag, id |-> id, fl |-> NoLink, bl |-> NoLink]

BadLine(id) ==
  [good |-> FALSE, ts |-> 0, tag |-> "", id |-> id, fl |-> NoLink, bl |-> NoLink]

get_link(line, dir) ==
  IF line.good THEN (IF dir = "Forward" THEN line.fl ELSE line.bl) ELSE NoLink

\* a variant of set_link that writes the link of both directions on any line
Mut_set_link(line, dir, link) == [line EXCEPT !.fl = link, !.bl = link]

set_link(line, dir, link) ==
  IF line.good
  THEN (IF dir = "Forward" THEN [line EXCEPT !.fl = link] ELSE [line EXCEPT !.bl = link])
  ELSE line

\* Ordering::Less is "Less", and so on.
is_older(lhs, rhs) ==
  IF lhs.good /\ rhs.good
  THEN (IF lhs.ts < rhs.ts THEN "Less" ELSE IF lhs.ts = rhs.ts THEN "Equal" ELSE "Greater")
  ELSE IF lhs.good THEN "Greater" ELSE "Less"

is_newer(lhs, rhs) ==
  IF lhs.good /\ rhs.good
  THEN (IF lhs.ts > rhs.ts THEN "Less" ELSE IF lhs.ts = rhs.ts THEN "Equal" ELSE "Greater")
  ELSE IF lhs.good THEN "Greater" ELSE "Less"

\* a variant of saturating_sub(1) that takes nothing off
Mut_saturating_sub1(r) == r

\* usize::saturating_sub(1) on a residue: 0 stays 0, everything else loses one.
saturating_sub1(r) == IF r = 0 THEN 0 ELSE r - 1

\* a < b on usize, a and b residues
ULess(a, b) ==
  IF a >= 0 /\ b >= 0 THEN a < b
  ELSE IF a < 0 /\ b < 0 THEN a < b
  ELSE b < 0

\* ------------------------------------------------------------- Chunk
NewChunk(reversed) == [lines |-> <<>>, reversed |-> reversed]

is_full(chunk) == Len(chunk.lines) = ChunkCapacity

\* get_real_index that reads a reversed chunk in storage order
Mut_get_real_index(chunk, i) == i

get_real_index(chunk, i) ==
  IF chunk.reversed THEN Len(chunk.lines) - 1 - i ELSE i

ChunkHas(chunk, i) ==
  LET r == get_real_index(chunk, i) IN r >= 0 /\ r < Len(chunk.lines)

ChunkGet(chunk, i) == chunk.lines[get_real_index(chunk, i) + 1]

\* ------------------------------------------------------------- LogFileContent
\* A LogFileContent is its sequence of chunks.
CIndex(c, l) == [chunk_index |-> c, line_index |-> l]
CZero == CIndex(0, 0)

StepOk(i) == [ok |-> TRUE, index |-> i, rem |-> 0]
StepErr(zero, n) == [ok |-> FALSE, index |-> zero, rem |-> n]

should_extend_front(chunks) ==
  IF chunks = <<>> THEN TRUE ELSE (~chunks[1].reversed) \/ is_full(chunks[1])

should_extend_back(chunks) ==
  IF chunks = <<>> THEN TRUE
  ELSE chunks[Len(chunks)].reversed \/ is_full(chunks[Len(chunks)])

push_front(chunks, line) ==
  Eval1(IF should_extend_front(chunks) THEN <<NewChunk(TRUE)>> \o chunks ELSE chunks,
        LAMBDA cs : [cs EXCEPT ![1].lines = Append(@, line)])

push_back(chunks, line) ==
  Eval1(IF should_extend_back(chunks) THEN Append(chunks, NewChunk(FALSE)) ELSE chunks,
        LAMBDA cs : [cs EXCEPT ![Len(cs)].lines = Append(@, line)])

ContentFirstIndex(chunks) == CZero

ContentLastIndex(chunks) ==
  LET chunk_index == IF Len(chunks) = 0 THEN 0 ELSE Len(chunks) - 1
      line_index == IF chunk_index < Len(chunks)
                    THEN (IF Len(chunks[chunk_index + 1].lines) = 0 THEN 0
                          ELSE Len(chunks[chunk_index + 1].lines) - 1)
                    ELSE 0
  IN CIndex(chunk_index, line_index)

HasChunk(chunks, ci) == ci >= 0 /\ ci < Len(chunks)

RECURSIVE ContentStepLoop(_, _, _)
ContentStepLoop(chunks, index0, n0) ==
  Eval2(index0, n0, LAMBDA index, n :
  LET chunk_size == Len(chunks[index.chunk_index + 1].lines)
      next_line_index == index.line_index + n
  IN IF ~(index.line_index >= 0 /\ index.line_index < chunk_size) THEN StepErr(CZero, n)
     ELSE IF n = 0 THEN StepOk(index)
     ELSE IF next_line_index < 0
       THEN LET m == next_line_index + 1
                ci == index.chunk_index - 1
            IN IF ~HasChunk(chunks, ci) THEN StepErr(CZero, m)
               ELSE ContentStepLoop(chunks,
                      CIndex(ci, IF Len(chunks[ci + 1].lines) = 0 THEN 0
                                 ELSE Len(chunks[ci + 1].lines) - 1), m)
     ELSE IF next_line_index >= chunk_size
       THEN LET m == next_line_index - chunk_size
                ci == index.chunk_index + 1
            IN IF ~HasChunk(chunks, ci) THEN StepErr(CZero, m)
               ELSE ContentStepLoop(chunks, CIndex(ci, 0), m)
     ELSE StepOk(CIndex(index.chunk_index, next_line_index)))

\* step_index that goes one line short when it steps towards the head
Mut_ContentStepIndex(chunks, index, n) ==
  IF ~HasChunk(chunks, index.chunk_index) THEN StepErr(CZero, n)
  ELSE ContentStepLoop(chunks, index, IF n < 0 THEN n + 1 ELSE n)

ContentStepIndex(chunks, index, n) ==
  IF ~HasChunk(chunks, index.chunk_index) THEN StepErr(CZero, n)
  ELSE ContentStepLoop(chunks, index, n)

ContentHas(chunks, index) ==
  HasChunk(chunks, index.chunk_index)
  /\ ChunkHas(chunks[index.chunk_index + 1], index.line_index)

ContentGet(chunks, index) == ChunkGet(chunks[index.chunk_index + 1], index.line_index)

\* ------------------------------------------------------------- RotatedLog
\* A RotatedLog of the store is its log_files; a LogFile of the store is a
\* record with its content.
RIndex(f, li) == [file_index |-> f, line_index |-> li]
RZero == RIndex(0, CZero)

HasFile(files, fi) == fi >= 0 /\ fi < Len(files)

RotatedFirstIndex(files) == RIndex(0, CZero)

RotatedLastIndex(files) ==
  LET file_index == IF Len(files) = 0 THEN 0 ELSE Len(files) - 1
  IN RIndex(file_index,
            IF HasFile(files, file_index)
            THEN ContentLastIndex(files[file_index + 1].content) ELSE CZero)

RotatedHas(files, index) ==
  HasFile(files, index.file_index)
  /\ ContentHas(files[index.file_index + 1].content, index.line_index)

RotatedGet(files, index) ==
  ContentGet(files[index.file_index + 1].content, index.line_index)

RECURSIVE RotatedStepLoop(_, _, _, _)
RotatedStepLoop(files, index0, n0, is_forward) ==
  Eval2(index0, n0, LAMBDA index, n :
  LET content == files[index.file_index + 1].content IN
  IF ~ContentHas(content, index.line_index) THEN StepErr(RZero, n)
  ELSE IF n = 0 THEN StepOk(index)
  ELSE LET r == ContentStepIndex(content, index.line_index, n) IN
    IF r.ok THEN StepOk(RIndex(index.file_index, r.index))
    ELSE LET fi == IF is_forward THEN index.file_index + 1 ELSE index.file_index - 1 IN
      IF ~HasFile(files, fi) THEN StepErr(RZero, r.rem)
      ELSE RotatedStepLoop(files,
             RIndex(fi, IF is_forward THEN ContentFirstIndex(files[fi + 1].content)
                        ELSE ContentLastIndex(files[fi + 1].content)),
             r.rem, is_forward))

RotatedStepIndex(files, index, n) ==
  IF ~HasFile(files, index.file_index) THEN StepErr(RZero, n)
  ELSE RotatedStepLoop(files, index, n, n >= 0)

\* set_link on the line the index names
RotatedSetLink(files, index, dir, link) ==
  LET chunk == files[index.file_index + 1].content[index.line_index.chunk_index + 1]
      real == get_real_index(chunk, index.line_index.line_index) + 1
  IN [files EXCEPT ![index.file_index + 1].content[index.line_index.chunk_index + 1].lines[real] =
        set_link(@, dir, link)]

\* ------------------------------------------------------------- iterators
\* The state of a ForwardIter(Mut) / BackwardIter(Mut): its Option<Index>.
None == [some |-> FALSE, idx |-> RZero]
Some(i) == [some |-> TRUE, idx |-> i]

One(dir) == IF dir = "Forward" THEN 1 ELSE -1

\* iter_forward_from / iter_backward_from
IterFrom(files, index) ==
  LET r == RotatedStepIndex(files, index, 0) IN IF r.ok THEN Some(r.index) ELSE None

\* next_nth(n) of the iterator at `it`: n is a usize residue.
\* [ok, index: the line reached, it: the iterator afterwards]
next_nth(files, it, n, dir) ==
  IF ~it.some THEN [ok |-> FALSE, index |-> RZero, it |-> it]
  ELSE Eval1(RotatedStepIndex(files, it.idx, IF dir = "Forward" THEN n ELSE -n), LAMBDA r :
    IF ~r.ok THEN [ok |-> FALSE, index |-> RZero, it |-> it]
    ELSE Eval1(RotatedStepIndex(files, r.index, One(dir)), LAMBDA s :
      [ok |-> TRUE, index |-> r.index, it |-> IF s.ok THEN Some(s.index) ELSE None]))

\* The ids the unfiltered iterator yields from `it` on.
RECURSIVE PlainCollect(_, _, _)
PlainCollect(files, it, dir) ==
  Eval1(next_nth(files, it, 0, dir), LAMBDA r :
    IF ~r.ok THEN <<>>
    ELSE <<RotatedGet(files, r.index)>> \o PlainCollect(files, r.it, dir))

\* ------------------------------------------------------------- TagsData
TagGet(tg, tag) == IF tag \in DOMAIN tg THEN tg[tag] ELSE FALSE

\* ------------------------------------------------------------- FilteredIter
\* The state of a FilteredIter: the data iterator, the chain's begin (index and
\* the copy of its link) and chain_begin_is_known_as_invalid.
FilteredNew(files, index) ==
  [iter |-> IterFrom(files, index), index |-> index, link |-> NoLink, chain |-> FALSE]

is_link_valid(v, link) == v = link.ver

is_filtered(tg, log) == IF ~log.good THEN FALSE ELSE ~TagGet(tg, log.tag)

\* The loop of fix_links_all_the_way: `ovf` records that farest_skip -= 1 ran
\* at 0 (a panic with overflow checks on, a wrap to usize::MAX without).
RECURSIVE FixLoop(_, _, _, _, _, _, _)
FixLoop(files0, it, dir, v, end, farest_skip0, ovf0) ==
  Eval3(files0, farest_skip0, ovf0, LAMBDA files, farest_skip, ovf :
  Eval1(next_nth(files, it, 0, dir), LAMBDA r :
  IF ~r.ok THEN [files |-> files, ovf |-> ovf]
  ELSE IF end.some /\ end.idx = r.index THEN [files |-> files, ovf |-> ovf]
  ELSE FixLoop(RotatedSetLink(files, r.index, dir, [ver |-> v, skip |-> farest_skip]),
               r.it, dir, v, end, farest_skip - 1, ovf \/ farest_skip = 0)))

fix_links_all_the_way(files, fi, dir, v, end, farest_skip) ==
  IF is_link_valid(v, fi.link) THEN [files |-> files, ovf |-> FALSE]
  ELSE FixLoop(files, IterFrom(files, fi.index), dir, v, end, farest_skip, FALSE)

begin_new_chain(fi, index, log, dir, v) ==
  [fi EXCEPT !.link = get_link(log, dir),
             !.index = index,
             !.chain = ~is_link_valid(v, get_link(log, dir))]

\* a + b on usize overflows
AddOverflows(a, b) == (a < 0 \/ b < 0) /\ a + b >= 0

FilteredResult(files, fi, item, ovf, hang) ==
  [files |-> files, fi |-> fi, item |-> item, ovf |-> ovf, hang |-> hang]

\* The loop of FilteredIter::next.  `seen` holds the loop states passed so far:
\* the loop is deterministic, so a state met twice is met forever (hang).
RECURSIVE FilteredLoop(_, _, _, _, _, _, _, _)
FilteredLoop(files0, fi0, skip_sum0, dir, tg, v, ovf0, seen0) ==
  Eval5(files0, fi0, skip_sum0, ovf0, seen0, LAMBDA files, fi, skip_sum, ovf, seen :
  Eval1(next_nth(files, fi.iter,
                 IF is_link_valid(v, fi.link) THEN saturating_sub1(fi.link.skip) ELSE 0, dir),
        LAMBDA r :
  IF <<files, fi, skip_sum>> \in seen THEN FilteredResult(files, fi, None, ovf, TRUE)
  ELSE IF ~r.ok
  THEN Eval1(fix_links_all_the_way(files, fi, dir, v, None, skip_sum), LAMBDA fx :
         FilteredResult(fx.files, fi, None, ovf \/ fx.ovf, FALSE))
  ELSE
    Eval3(RotatedGet(files, r.index),
          IF is_link_valid(v, fi.link)
          THEN begin_new_chain([fi EXCEPT !.iter = r.it], r.index,
                               RotatedGet(files, r.index), dir, v)
          ELSE [fi EXCEPT !.iter = r.it],
          get_link(RotatedGet(files, r.index), dir),
          LAMBDA log, fi2, next_link :
    IF ~is_filtered(tg, log)
    THEN Eval1(fix_links_all_the_way(files, fi2, dir, v, Some(r.index), skip_sum), LAMBDA fx :
           FilteredResult(fx.files,
                          begin_new_chain(fi2, r.index, RotatedGet(fx.files, r.index), dir, v),
                          Some(r.index), ovf \/ fx.ovf, FALSE))
    ELSE IF is_link_valid(v, next_link)
    THEN Eval1(fix_links_all_the_way(files, fi2, dir, v, Some(r.index),
                                     skip_sum + 1 + next_link.skip), LAMBDA fx :
           FilteredLoop(fx.files,
                        begin_new_chain(fi2, r.index, RotatedGet(fx.files, r.index), dir, v),
                        0, dir, tg, v,
                        ovf \/ fx.ovf \/ AddOverflows(skip_sum + 1, next_link.skip),
                        seen \cup {<<files, fi, skip_sum>>}))
    ELSE FilteredLoop(files, fi2, skip_sum + 1, dir, tg, v, ovf,
                      seen \cup {<<files, fi, skip_sum>>}))))

FilteredNext(files, fi, dir, tg, v) ==
  FilteredLoop(files, fi, IF fi.chain THEN 1 ELSE 0, dir, tg, v, FALSE, {})

\* collect(): next() until it returns None.  A traversal's result: the ids
\* yielded in order, how it ended ("done": the iterator returned None; "hang":
\* a next() call never returns; "overrun": cut after MaxOut lines) and whether
\* an arithmetic overflow happened.
RECURSIVE FilteredCollect(_, _, _, _, _, _, _)
FilteredCollect(files0, fi0, dir, tg, v, out0, ovf0) ==
  Eval3(files0, out0, ovf0, LAMBDA files, out, ovf :
  IF Len(out) > MaxOut THEN [files |-> files, out |-> out, status |-> "overrun", ovf |-> ovf]
  ELSE Eval1(FilteredNext(files, fi0, dir, tg, v), LAMBDA r :
    IF r.hang THEN [files |-> r.files, out |-> out, status |-> "hang", ovf |-> ovf \/ r.ovf]
    ELSE IF ~r.item.some
    THEN [files |-> r.files, out |-> out, status |-> "done", ovf |-> ovf \/ r.ovf]
    ELSE FilteredCollect(r.files, r.fi, dir, tg, v,
                         Append(out, RotatedGet(r.files, r.item.idx).id), ovf \/ r.ovf)))

filtered_iter_forward_from_head(files, tg, v) ==
  FilteredCollect(files, FilteredNew(files, RotatedFirstIndex(files)), "Forward", tg, v, <<>>, FALSE)

filtered_iter_backward_from_tail(files, tg, v) ==
  FilteredCollect(files, FilteredNew(files, RotatedLastIndex(files)), "Backward", tg, v, <<>>, FALSE)

\* ------------------------------------------------------------- LogHub iteration
\* usize::MAX, the selection of an Index that selects no log
NoSelection == -1

HIndex(indexes, selection) == [indexes |-> indexes, selection |-> selection]

\* The hub's Iter: per log (last valid index, FilteredIter, the item taken but
\* not yet yielded), and init_selection.
HubIterFrom(lg, index) ==
  [iters |-> [i \in DOMAIN lg |->
                [last |-> index.indexes[i],
                 fi |-> FilteredNew(lg[i], index.indexes[i]),
                 elem |-> None]],
   init_selection |-> index.selection]

\* a comparison that takes the newest first whatever the direction
Mut_Cmp(dir, lhs, rhs) == is_newer(lhs, rhs)

\* the order of the direction: is_older forward, is_newer backward
Cmp(dir, lhs, rhs) == IF dir = "Forward" THEN is_older(lhs, rhs) ELSE is_newer(lhs, rhs)

\* iters.iter_mut().enumerate(), reversed when going backward
VisitOrder(n, dir) == [i \in 1..n |-> IF dir = "Forward" THEN i ELSE n + 1 - i]

\* The loop of find_extremum over the logs still `todo`; min is the log holding
\* the extremum so far (0: none yet).
RECURSIVE FindLoop(_, _, _, _, _, _, _, _, _)
FindLoop(lg0, iters0, todo0, index0, min0, ovf0, dir, tg, v) ==
  Eval3(<<lg0, iters0>>, todo0, <<index0, min0, ovf0>>, LAMBDA st, todo, acc :
  IF todo = <<>>
  THEN [logs |-> st[1], iters |-> st[2], index |-> acc[1], min |-> acc[2],
        ovf |-> acc[3], hang |-> FALSE]
  ELSE
  Eval1(IF st[2][Head(todo)].elem.some
        THEN FilteredResult(st[1][Head(todo)], st[2][Head(todo)].fi,
                            st[2][Head(todo)].elem, FALSE, FALSE)
        ELSE FilteredNext(st[1][Head(todo)], st[2][Head(todo)].fi, dir, tg, v), LAMBDA r :
  LET nth == Head(todo)
      lg == [st[1] EXCEPT ![nth] = r.files]
      iters == [st[2] EXCEPT ![nth].fi = r.fi, ![nth].elem = r.item]
      index == acc[1]
      min == acc[2]
      ovf == acc[3] \/ r.ovf
      better == IF min = 0 THEN TRUE
                ELSE Cmp(dir, RotatedGet(lg[nth], r.item.idx),
                              RotatedGet(lg[min], iters[min].elem.idx)) = "Less"
  IN
  IF r.hang
  THEN [logs |-> lg, iters |-> iters, index |-> index, min |-> min, ovf |-> ovf, hang |-> TRUE]
  ELSE IF r.item.some
  THEN FindLoop(lg, iters, Tail(todo),
                HIndex([index.indexes EXCEPT ![nth] = r.item.idx],
                       IF better THEN nth - 1 ELSE index.selection),
                IF better THEN nth ELSE min, ovf, dir, tg, v)
  ELSE FindLoop(lg, iters, Tail(todo),
                HIndex([index.indexes EXCEPT ![nth] = st[2][nth].last], index.selection),
                min, ovf, dir, tg, v)))

find_extremum(lg, iters, dir, tg, v) ==
  FindLoop(lg, iters, VisitOrder(Len(lg), dir),
           HIndex([i \in DOMAIN lg |-> RZero], NoSelection), 0, FALSE, dir, tg, v)

\* next_one: [logs, hub, some, index, id (of the line yielded), ovf, hang, cut]
next_one(lg, hub, dir, tg, v) ==
  Eval1(find_extremum(lg, hub.iters, dir, tg, v), LAMBDA fe :
    [logs |-> fe.logs,
     hub |-> [hub EXCEPT !.iters =
                IF fe.min = 0 \/ fe.hang THEN fe.iters
                ELSE [fe.iters EXCEPT ![fe.min].last = fe.iters[fe.min].elem.idx,
                                      ![fe.min].elem = None]],
     some |-> fe.min # 0 /\ ~fe.hang,
     index |-> fe.index,
     id |-> IF fe.min = 0 \/ fe.hang THEN 0
            ELSE RotatedGet(fe.logs[fe.min], fe.iters[fe.min].elem.idx).id,
     ovf |-> fe.ovf, hang |-> fe.hang, cut |-> FALSE])

\* Iter::next: the items before the initial selection are dropped
RECURSIVE HubNext(_, _, _, _, _, _, _)
HubNext(lg0, hub0, dir, tg, v, ovf0, dropped0) ==
  Eval3(next_one(lg0, hub0, dir, tg, v), ovf0, dropped0, LAMBDA r, ovf, dropped :
  IF ~r.some THEN [r EXCEPT !.ovf = ovf \/ r.ovf]
  ELSE IF ULess(r.hub.init_selection, Len(r.hub.iters))
  THEN IF r.index.selection # r.hub.init_selection
       THEN (IF dropped >= MaxOut THEN [r EXCEPT !.some = FALSE, !.cut = TRUE, !.ovf = ovf \/ r.ovf]
             ELSE HubNext(r.logs, r.hub, dir, tg, v, ovf \/ r.ovf, dropped + 1))
       ELSE [r EXCEPT !.hub.init_selection = Len(r.hub.iters), !.ovf = ovf \/ r.ovf]
  ELSE [r EXCEPT !.ovf = ovf \/ r.ovf])

\* next() until None, the ids collected
RECURSIVE HubCollect(_, _, _, _, _, _, _)
HubCollect(lg0, hub0, dir, tg, v, out0, ovf0) ==
  Eval3(<<lg0, hub0>>, out0, ovf0, LAMBDA st, out, ovf :
  IF Len(out) > MaxOut THEN [logs |-> st[1], out |-> out, status |-> "overrun", ovf |-> ovf]
  ELSE Eval1(HubNext(st[1], st[2], dir, tg, v, FALSE, 0), LAMBDA r :
    IF r.hang THEN [logs |-> r.logs, out |-> out, status |-> "hang", ovf |-> ovf \/ r.ovf]
    ELSE IF r.cut THEN [logs |-> r.logs, out |-> out, status |-> "overrun", ovf |-> ovf \/ r.ovf]
    ELSE IF ~r.some THEN [logs |-> r.logs, out |-> out, status |-> "done", ovf |-> ovf \/ r.ovf]
    ELSE HubCollect(r.logs, r.hub, dir, tg, v, Append(out, r.id), ovf \/ r.ovf)))

\* next() until None, the (index, id) items collected
RECURSIVE HubItems(_, _, _, _, _, _, _)
HubItems(lg0, hub0, dir, tg, v, out0, ovf0) ==
  Eval3(<<lg0, hub0>>, out0, ovf0, LAMBDA st, out, ovf :
  IF Len(out) > MaxOut THEN [logs |-> st[1], out |-> out, status |-> "overrun", ovf |-> ovf]
  ELSE Eval1(HubNext(st[1], st[2], dir, tg, v, FALSE, 0), LAMBDA r :
    IF r.hang THEN [logs |-> r.logs, out |-> out, status |-> "hang", ovf |-> ovf \/ r.ovf]
    ELSE IF r.cut THEN [logs |-> r.logs, out |-> out, status |-> "overrun", ovf |-> ovf \/ r.ovf]
    ELSE IF ~r.some THEN [logs |-> r.logs, out |-> out, status |-> "done", ovf |-> ovf \/ r.ovf]
    ELSE HubItems(r.logs, r.hub, dir, tg, v,
                  Append(out, [index |-> r.index, id |-> r.id]), ovf \/ r.ovf)))

\* get without the skip to the selection of the index
Mut_HubGet(lg, index, tg, v) ==
  Eval1(HubNext(lg, HubIterFrom(lg, [index EXCEPT !.selection = NoSelection]), "Forward",
                tg, v, FALSE, 0), LAMBDA r :
    [some |-> r.some, id |-> r.id, ovf |-> r.ovf, hang |-> r.hang \/ r.cut])

\* LogHubRef::get: the first item of iter_forward_from(index).  [some, id, ovf, hang]
HubGet(lg, index, tg, v) ==
  Eval1(HubNext(lg, HubIterFrom(lg, index), "Forward", tg, v, FALSE, 0), LAMBDA r :
    [some |-> r.some, id |-> r.id, ovf |-> r.ovf, hang |-> r.hang \/ r.cut])

\* first_index / last_index: the logs' own ends, then one next() of an iterator
\* from there to find the selection.  [logs, index, ovf, hang]
HubEndIndex(lg, dir, tg, v) ==
  Eval1(HIndex([i \in DOMAIN lg |-> IF dir = "Forward" THEN RotatedFirstIndex(lg[i])
                                    ELSE RotatedLastIndex(lg[i])], NoSelection), LAMBDA index :
  Eval1(HubNext(lg, HubIterFrom(lg, index), dir, tg, v, FALSE, 0), LAMBDA r :
    [logs |-> r.logs, index |-> IF r.some THEN r.index ELSE index,
     ovf |-> r.ovf, hang |-> r.hang \/ r.cut]))

\* iter_forward_from_head / iter_backward_from_tail, collected
HubTraverse(lg, dir, tg, v) ==
  Eval1(HubEndIndex(lg, dir, tg, v), LAMBDA e :
    IF e.hang THEN [logs |-> e.logs, out |-> <<>>, status |-> "hang", ovf |-> e.ovf]
    ELSE Eval1(HubCollect(e.logs, HubIterFrom(e.logs, e.index), dir, tg, v, <<>>, e.ovf),
               LAMBDA r : r))

\* ------------------------------------------------------------- building content
\* What a line is: Bad, or Good with a timestamp and a tag.
BadKind == [good |-> FALSE, ts |-> 0, tag |-> ""]
GoodKind(ts, tag) == [good |-> TRUE, ts |-> ts, tag |-> tag]

MkLine(kind, id) == IF kind.good THEN GoodLine(kind.ts, kind.tag, id) ELSE BadLine(id)

\* LogFile::update on a run of NewTail events, oldest line first
RECURSIVE PushBackAll(_, _)
PushBackAll(chunks0, ls0) ==
  Eval2(chunks0, ls0, LAMBDA chunks, ls :
    IF ls = <<>> THEN chunks ELSE PushBackAll(push_back(chunks, Head(ls)), Tail(ls)))

\* LogFile::update on a run of NewHead events, newest line first
RECURSIVE PushFrontAll(_, _)
PushFrontAll(chunks0, ls0) ==
  Eval2(chunks0, ls0, LAMBDA chunks, ls :
    IF ls = <<>> THEN chunks
    ELSE PushFrontAll(push_front(chunks, ls[Len(ls)]), SubSeq(ls, 1, Len(ls) - 1)))

\* The content of a file whose lines are ls, oldest first, after its first
\* nfront lines came in as NewHead events and the others as NewTail events.
BuildContent(ls, nfront) ==
  PushFrontAll(PushBackAll(<<>>, SubSeq(ls, nfront + 1, Len(ls))), SubSeq(ls, 1, nfront))

RECURSIVE SumSplit(_, _)
SumSplit(sp, n) == IF n = 0 THEN 0 ELSE sp[n] + SumSplit(sp, n - 1)

RECURSIVE SumLines(_)
SumLines(shape) == IF shape = <<>> THEN 0 ELSE Head(shape).n + SumLines(Tail(shape))

\* The shapes of a RotatedLog: per file, its number of lines and how many of
\* them were read towards the head.
Shapes ==
  { sh \in UNION { [1..k -> [n : 0..MaxLines, nfront : 0..MaxLines]] : k \in 0..MaxFiles } :
      /\ \A i \in DOMAIN sh : sh[i].nfront <= sh[i].n
      /\ SumLines(sh) <= MaxLines }

RECURSIVE BuildFiles(_, _, _)
BuildFiles(shape0, ls0, base0) ==
  Eval3(shape0, ls0, base0, LAMBDA shape, ls, base :
  IF shape = <<>> THEN <<>>
  ELSE <<[content |-> BuildContent([i \in 1..Head(shape).n |-> MkLine(ls[i], base + i)],
                                   Head(shape).nfront)]>>
       \o BuildFiles(Tail(shape), SubSeq(ls, Head(shape).n + 1, Len(ls)), base + Head(shape).n))

\* The tags of the lines: each is registered, enabled, when its line is stored.
TagsOf(ls) == {ls[i].tag : i \in {j \in DOMAIN ls : ls[j].good}}

\* ------------------------------------------------------------- filtered traversal of one RotatedLog
\* tests/test_rotated_log.rs: a RotatedLog with unchanged content, the filter
\* set to one tag subset after another, full filtered passes in between.
FilterTags == {"ta"}
FilterKinds == {BadKind} \cup {GoodKind(1, t) : t \in FilterTags}

NoResult == [kind |-> "none", out |-> <<>>, status |-> "done", ovf |-> FALSE, warm |-> FALSE]

\* no log being updated
NoMatcher == [kind |-> "new"]

IdleUi == pages_stack = <<>> /\ matcher = NoMatcher

IdleUpd ==
  /\ channels = <<>>
  /\ lfiles = <<>>
  /\ data_board = <<>>
  /\ updates = <<>>
  /\ utask = <<>>

\* no reader opened
IdleRead ==
  /\ file_bytes = <<>>
  /\ states = <<>>
  /\ tx = <<>>
  /\ received = <<>>
  /\ reads = <<>>
  /\ tail_watch = <<>>

\* no hub with update tasks
IdleGuard ==
  /\ hub_logs = <<>>
  /\ tasks = <<>>
  /\ stop_token = 0
  /\ cancelled = {}
  /\ main = "running"

\* no log under rotation
IdleRot ==
  /\ disk = [k \in 0..MaxSuffix |-> 0]
  /\ fsize = <<>>
  /\ log_files = <<>>
  /\ want_older_log = FALSE
  /\ nrot = 0

InitFilter ==
  /\ \E sh \in Shapes : \E ls \in [1..SumLines(sh) -> FilterKinds] :
       /\ logs = <<BuildFiles(sh, ls, 0)>>
       /\ tags = [t \in TagsOf(ls) |-> TRUE]
  /\ ver = 0
  /\ res = NoResult
  /\ warm = {}
  /\ IdleUi
  /\ IdleRot
  /\ IdleGuard
  /\ IdleRead
  /\ IdleUpd

\* update_version(), then set / unset of every registered tag
SetFilter(comb) ==
  /\ ver < MaxVer
  /\ ver' = ver + 1
  /\ tags' = [t \in DOMAIN tags |-> t \in comb]
  /\ warm' = {}
  /\ res' = NoResult
  /\ UNCHANGED <<logs, restOfStore>>

FilteredForward ==
  \E r \in {filtered_iter_forward_from_head(logs[1], tags, ver)} :
  /\ logs' = <<r.files>>
  /\ res' = [kind |-> "ff", out |-> r.out, status |-> r.status, ovf |-> r.ovf,
             warm |-> "Forward" \in warm]
  /\ warm' = warm \cup {"Forward"}
  /\ UNCHANGED <<tags, ver, restOfStore>>

FilteredBackward ==
  \E r \in {filtered_iter_backward_from_tail(logs[1], tags, ver)} :
  /\ logs' = <<r.files>>
  /\ res' = [kind |-> "fb", out |-> r.out, status |-> r.status, ovf |-> r.ovf,
             warm |-> "Backward" \in warm]
  /\ warm' = warm \cup {"Backward"}
  /\ UNCHANGED <<tags, ver, restOfStore>>

NextFilter ==
  \/ \E comb \in SUBSET DOMAIN tags : SetFilter(comb)
  \/ FilteredForward
  \/ FilteredBackward

SpecFilter == InitFilter /\ [][NextFilter]_vars

\* ------------------------------------------------------------- a content being filled
MaxPushes == 5

\* the iterator of a LogFileContent, next() until None: the lines it yields
RECURSIVE ContentCollect(_, _, _)
ContentCollect(chunks, it, dir) ==
  IF ~it.some THEN <<>>
  ELSE Eval1(ContentStepIndex(chunks, it.idx, 0), LAMBDA r :
    IF ~r.ok THEN <<>>
    ELSE Eval1(ContentStepIndex(chunks, r.index, One(dir)), LAMBDA s :
      <<ContentGet(chunks, r.index)>>
        \o ContentCollect(chunks, IF s.ok THEN Some(s.index) ELSE None, dir)))

\* iter_forward_from / iter_backward_from of a LogFileContent
ContentIterFrom(chunks, index) ==
  LET r == ContentStepIndex(chunks, index, 0) IN IF r.ok THEN Some(r.index) ELSE None

\* do_next_nth of a LogFileContent iterator at `it`, n signed as the direction
\* says: [ok, err].  The error is a usize: `n as usize` of a negative n is kept
\* as its residue (a negative number here), m.abs() otherwise
do_next_nth(chunks, it, n) ==
  IF ~it.some THEN [ok |-> FALSE, err |-> n]
  ELSE Eval1(ContentStepIndex(chunks, it.idx, n), LAMBDA r :
    [ok |-> r.ok, err |-> IF r.ok THEN 0 ELSE IF r.rem < 0 THEN 0 - r.rem ELSE r.rem])

iter_forward_from_head(chunks) ==
  ContentCollect(chunks, ContentIterFrom(chunks, ContentFirstIndex(chunks)), "Forward")

iter_backward_from_tail(chunks) ==
  ContentCollect(chunks, ContentIterFrom(chunks, ContentLastIndex(chunks)), "Backward")

\* LogFileContent::new: no chunk.  res.out keeps the ids pushed, those pushed
\* to the front before the others, the latest push outermost.
InitContent ==
  /\ logs = <<<<[content |-> <<>>]>>>>
  /\ res = [NoResult EXCEPT !.kind = "push"]
  /\ tags = <<>> /\ ver = 0 /\ warm = {}
  /\ IdleUi
  /\ IdleRot
  /\ IdleGuard
  /\ IdleRead
  /\ IdleUpd

PushFront(kind) ==
  /\ Len(res.out) < MaxPushes
  /\ logs' = [logs EXCEPT ![1][1].content = push_front(@, MkLine(kind, Len(res.out) + 1))]
  /\ res' = [res EXCEPT !.out = <<Len(res.out) + 1>> \o @]
  /\ UNCHANGED <<tags, ver, warm, restOfStore>>

PushBack(kind) ==
  /\ Len(res.out) < MaxPushes
  /\ logs' = [logs EXCEPT ![1][1].content = push_back(@, MkLine(kind, Len(res.out) + 1))]
  /\ res' = [res EXCEPT !.out = Append(@, Len(res.out) + 1)]
  /\ UNCHANGED <<tags, ver, warm, restOfStore>>

NextContent ==
  \/ \E kind \in FilterKinds : PushFront(kind)
  \/ \E kind \in FilterKinds : PushBack(kind)

SpecContent == InitContent /\ [][NextContent]_vars

\* ------------------------------------------------------------- TagsData
\* a tag no line carries, never registered
UnknownTag == "zz"

\* TagsData::set_value: the flag of a registered tag is written, nothing else
set_value(tg, tag, value) == IF tag \in DOMAIN tg THEN [tg EXCEPT ![tag] = value] ELSE tg

\* a call of set_value on the registry of the data board: ver stays as it is
TagsWrite(tag, value) ==
  /\ tags' = set_value(tags, tag, value)
  /\ res' = NoResult
  /\ UNCHANGED <<ver, warm, logs, restOfStore>>

set(tag) == TagsWrite(tag, TRUE)

unset(tag) == TagsWrite(tag, FALSE)

toggle(tag) == TagsWrite(tag, ~TagGet(tags, tag))

update_version ==
  /\ ver < MaxVer
  /\ ver' = ver + 1
  /\ warm' = {}
  /\ res' = NoResult
  /\ UNCHANGED <<tags, logs, restOfStore>>

NextTags ==
  \/ \E t \in DOMAIN tags \cup {UnknownTag} : set(t)
  \/ \E t \in DOMAIN tags \cup {UnknownTag} : unset(t)
  \/ \E t \in DOMAIN tags \cup {UnknownTag} : toggle(t)
  \/ update_version
  \/ FilteredForward
  \/ FilteredBackward

SpecTags == InitFilter /\ [][NextTags]_vars

\* ------------------------------------------------------------- reference
Ids(ls) == [i \in DOMAIN ls |-> ls[i].id]

Reverse(sq) == [i \in 1..Len(sq) |-> sq[Len(sq) + 1 - i]]

\* the naive filter of the test: a line without tag stays, a line with a tag
\* stays when its tag is in the enabled set
NaiveKeeps(tg, line) == (~line.good) \/ (line.tag \in {t \in DOMAIN tg : tg[t]})

NaiveFilter(tg, ls) == SelectSeq(ls, LAMBDA l : NaiveKeeps(tg, l))

\* the lines of all files in storage order, oldest first
RECURSIVE ChunkLines(_)
ChunkLines(chunks) ==
  IF chunks = <<>> THEN <<>>
  ELSE (IF Head(chunks).reversed THEN Reverse(Head(chunks).lines) ELSE Head(chunks).lines)
       \o ChunkLines(Tail(chunks))

RECURSIVE AllLines(_)
AllLines(files) ==
  IF files = <<>> THEN <<>> ELSE ChunkLines(Head(files).content) \o AllLines(Tail(files))

UnfilteredForward(files) == PlainCollect(files, IterFrom(files, RotatedFirstIndex(files)), "Forward")
UnfilteredBackward(files) == PlainCollect(files, IterFrom(files, RotatedLastIndex(files)), "Backward")

NoEmptyFile(files) == \A i \in DOMAIN files : ChunkLines(files[i].content) # <<>>

HubTags == {"ta", "tb"}
HubKinds == {BadKind} \cup {GoodKind(ts, t) : ts \in Stamps, t \in HubTags}

\* how the HubLines lines are split among the logs
HubSplits == { sp \in [1..NumLogs -> 0..HubLines] : SumSplit(sp, NumLogs) <= HubLines }

HubSource(ls, from, n, nth) ==
  IF n = 0 THEN <<>>
  ELSE <<[content |-> BuildContent([i \in 1..n |-> MkLine(ls[from + i], 10 * nth + i)], 0)]>>

InitHub ==
  /\ \E sp \in HubSplits : \E ls \in [1..SumSplit(sp, NumLogs) -> HubKinds] :
       /\ logs = [nth \in 1..NumLogs |-> HubSource(ls, SumSplit(sp, nth - 1), sp[nth], nth)]
       /\ tags = [t \in TagsOf(ls) |-> TRUE]
  /\ ver = 0
  /\ res = NoResult
  /\ warm = {}
  /\ IdleUi
  /\ IdleRot
  /\ IdleGuard
  /\ IdleRead
  /\ IdleUpd

\* TagController::run_once: the tags are set as the controls say, then the
\* version is bumped
TagControl(comb) ==
  /\ ver < HubMaxVer
  /\ tags' = [t \in DOMAIN tags |-> t \in comb]
  /\ ver' = ver + 1
  /\ warm' = {}
  /\ res' = NoResult
  /\ UNCHANGED <<logs, restOfStore>>

HubForward ==
  \E r \in {HubTraverse(logs, "Forward", tags, ver)} :
  /\ logs' = r.logs
  /\ res' = [kind |-> "hf", out |-> r.out, status |-> r.status, ovf |-> r.ovf,
             warm |-> "Forward" \in warm]
  /\ warm' = warm \cup {"Forward"}
  /\ UNCHANGED <<tags, ver, restOfStore>>

HubBackward ==
  \E r \in {HubTraverse(logs, "Backward", tags, ver)} :
  /\ logs' = r.logs
  /\ res' = [kind |-> "hb", out |-> r.out, status |-> r.status, ovf |-> r.ovf,
             warm |-> "Backward" \in warm]
  /\ warm' = warm \cup {"Backward"}
  /\ UNCHANGED <<tags, ver, restOfStore>>

NextHub ==
  \/ \E comb \in SUBSET DOMAIN tags : TagControl(comb)
  \/ HubForward
  \/ HubBackward

SpecHub == InitHub /\ [][NextHub]_vars

\* LogController::run_once with the window at the top of the stream:
\* try_load_older_logs(first_index()); res.want is the want_older_log of each log
TryLoadOlder ==
  /\ res.kind = "none"
  /\ \E e \in {HubEndIndex(logs, "Forward", tags, ver)} :
     /\ ~e.hang
     /\ logs' = e.logs
     /\ res' = [kind |-> "older", out |-> <<>>, status |-> "done", ovf |-> e.ovf, warm |-> FALSE,
                index |-> e.index,
                want |-> [i \in DOMAIN logs |-> e.index.indexes[i] = RotatedFirstIndex(logs[i])]]
     /\ UNCHANGED <<tags, ver, warm, restOfStore>>

NextOlder ==
  \/ \E comb \in SUBSET DOMAIN tags : TagControl(comb)
  \/ TryLoadOlder

SpecOlder == InitHub /\ [][NextOlder]_vars

\* ------------------------------------------------------------- a log under rotation
\* A path of the log is its rotation suffix: 0 is name.log (RotatedLog.path),
\* k is name.log.k.  NoPath is the empty PathBuf, and the place of a file that
\* is no longer in the directory.
NoPath == -1

\* what the link of a descriptor reads once its file (last seen at path k) is
\* unlinked: "<path k> (deleted)"
Deleted(k) == NoPath - 1 - k

IsDeleted(p) == p < NoPath

\* the bytes of "(deleted)" and of the mark the kernel appends, " (deleted)"
DeletedWord == <<40, 100, 101, 108, 101, 116, 101, 100, 41>>

DeletedMark == <<32>> \o DeletedWord

\* the bytes of "name.log"
LogName == <<110, 97, 109, 101, 46, 108, 111, 103>>

\* the file name after "name.log", as bytes: nothing, or "." (46) and the
\* decimal digits ("0" is 48); then the mark of a deleted file
RECURSIVE Suffix(_)
Suffix(k) ==
  IF IsDeleted(k) THEN Suffix(NoPath - 1 - k) \o DeletedMark
  ELSE IF k = 0 THEN <<>>
  ELSE IF k < 10 THEN <<46, 48 + k>> ELSE <<46, 48 + (k \div 10), 48 + (k % 10)>>

\* path a < path b: the comparison of PathBuf, byte by byte on the file name
PathLess(a, b) ==
  LET sa == Suffix(a)  sb == Suffix(b) IN
  \E i \in 1..Len(sb) :
    /\ \A j \in 1..(i - 1) : j <= Len(sa) /\ sa[j] = sb[j]
    /\ (i > Len(sa) \/ (i <= Len(sa) /\ sa[i] < sb[i]))

\* visit_log_paths: the paths of the directory that start with the log's name
LogPaths == {k \in DOMAIN disk : disk[k] # 0}

\* update_with_latest_path over a set of paths: the smallest, or NoPath
LatestOf(paths) ==
  IF paths = {} THEN NoPath
  ELSE CHOOSE k \in paths : \A o \in paths \ {k} : ~PathLess(o, k)

find_latest_log_path == LatestOf(LogPaths)

find_older_log_path(files) ==
  IF files = <<>> THEN NoPath
  ELSE LatestOf({k \in LogPaths : PathLess(files[1].path, k)})

\* LogFile::open: the file the path names now, no content yet, its reader
\* started and its watcher remembering the path
open_log_file(path) ==
  [ino |-> disk[path], path |-> path, content |-> <<>>, swept |-> FALSE,
   raw_path |-> path, meta |-> "none", meta_path |-> NoPath]

maybe_load_latest_log(files) ==
  LET loaded_latest_path == IF files = <<>> THEN NoPath ELSE files[Len(files)].path IN
  IF loaded_latest_path = 0 THEN files
  ELSE IF find_latest_log_path = NoPath THEN files
  ELSE IF loaded_latest_path = find_latest_log_path THEN files
  ELSE Append(files, open_log_file(find_latest_log_path))

maybe_load_older_log(files) ==
  IF ~want_older_log THEN files
  ELSE IF find_older_log_path(files) = NoPath THEN files
  ELSE <<open_log_file(find_older_log_path(files))>> \o files

\* where the directory has the file now
WhereIs(ino) == IF \E k \in 0..MaxSuffix : disk[k] = ino
                THEN CHOOSE k \in 0..MaxSuffix : disk[k] = ino ELSE NoPath

\* the lines of a file on disk, oldest first
DiskLines(ino) == [k \in 1..fsize[ino] |-> MkLine(GoodKind(1, "ta"), 10 * ino + k)]

\* DataBoard::update_tag for each line: a tag not yet known is inserted, enabled
UpdateTags(tg, ls) ==
  [t \in DOMAIN tg \cup TagsOf(ls) |-> IF t \in DOMAIN tg THEN tg[t] ELSE TRUE]

\* The directory at the start: name.log and its n - 1 rotations, the file of
\* the greatest suffix the oldest.
InitRotate ==
  /\ \E n \in 1..(MaxSuffix + 1) : \E sz \in [1..n -> 0..MaxFileLines] :
       /\ disk = [k \in 0..MaxSuffix |-> IF k < n THEN n - k ELSE 0]
       /\ fsize = sz
  /\ log_files = <<>>
  /\ want_older_log = FALSE
  /\ nrot = 0
  /\ tags = <<>>
  /\ logs = <<>> /\ ver = 0 /\ res = NoResult /\ warm = {}
  /\ IdleUi
  /\ IdleGuard
  /\ IdleRead
  /\ IdleUpd

\* logrotate: every file moves one suffix up, the one at MaxSuffix is deleted,
\* and a new, empty name.log is created
Rotate ==
  /\ nrot < MaxRotations
  /\ disk[0] # 0
  /\ disk' = [k \in 0..MaxSuffix |-> IF k = 0 THEN Len(fsize) + 1 ELSE disk[k - 1]]
  /\ fsize' = Append(fsize, 0)
  /\ nrot' = nrot + 1
  /\ UNCHANGED <<log_files, want_older_log, tags, restOfRot>>

\* Path::ends_with for a child of one component: whole components are
\* compared, so the last component of the path has to be the child
path_ends_with(p, child) == LogName \o Suffix(p) = child

\* fd_path.read_link(): the path of the file now; for a file that is no
\* longer in the directory (Rotate unlinks the one at MaxSuffix) its last path
\* with the mark
read_link(ino) == IF WhereIs(ino) = NoPath THEN Deleted(MaxSuffix) ELSE WhereIs(ino)

\* the watcher of file i polls the link of its descriptor; err: read_link
\* fails (the descriptor is held open, so the model lets the read fail only
\* once the file has been unlinked)
WatchPoll(i, err) ==
  /\ log_files[i].meta # "removed"
  /\ err => WhereIs(log_files[i].ino) = NoPath
  /\ err \/ read_link(log_files[i].ino) # log_files[i].raw_path
  /\ log_files' =
       IF err \/ path_ends_with(read_link(log_files[i].ino), DeletedWord)
       THEN [log_files EXCEPT ![i].meta = "removed"]
       ELSE [log_files EXCEPT ![i].raw_path = read_link(log_files[i].ino),
                              ![i].meta = "renamed",
                              ![i].meta_path = read_link(log_files[i].ino)]
  /\ UNCHANGED <<disk, fsize, want_older_log, nrot, tags, restOfRot>>

set_want_older_log ==
  /\ ~want_older_log
  /\ want_older_log' = TRUE
  /\ UNCHANGED <<disk, fsize, log_files, nrot, tags, restOfRot>>

prepare ==
  /\ log_files' = maybe_load_older_log(maybe_load_latest_log(log_files))
  /\ want_older_log' = FALSE
  /\ log_files' # log_files \/ want_older_log
  /\ UNCHANGED <<disk, fsize, nrot, tags, restOfRot>>

\* RotatedLog::update, file i's update first: the backward sweep of its reader
\* has arrived, every line a NewHead event, the newest line first
UpdateSweep(i) ==
  /\ ~log_files[i].swept
  /\ log_files' = [log_files EXCEPT
                     ![i].content = PushFrontAll(<<>>, DiskLines(log_files[i].ino)),
                     ![i].swept = TRUE]
  /\ tags' = UpdateTags(tags, DiskLines(log_files[i].ino))
  /\ UNCHANGED <<disk, fsize, want_older_log, nrot, restOfRot>>

\* RotatedLog::update, file i's update first: a Renamed or a Removed event
UpdateMeta(i) ==
  /\ log_files[i].meta # "none"
  /\ log_files' =
       IF log_files[i].meta = "removed"
       THEN [j \in 1..(Len(log_files) - 1) |-> IF j < i THEN log_files[j] ELSE log_files[j + 1]]
       ELSE [log_files EXCEPT ![i].path = log_files[i].meta_path, ![i].meta = "none"]
  /\ UNCHANGED <<disk, fsize, want_older_log, nrot, tags, restOfRot>>

NextRotate ==
  \/ Rotate
  \/ set_want_older_log
  \/ prepare
  \/ \E i \in DOMAIN log_files : \E err \in BOOLEAN : WatchPoll(i, err)
  \/ \E i \in DOMAIN log_files : UpdateSweep(i)
  \/ \E i \in DOMAIN log_files : UpdateMeta(i)

SpecRotate == InitRotate /\ [][NextRotate]_vars

\* ------------------------------------------------------------- a long rotation history
MaxKept == 11

\* a directory that is left alone: name.log and name.log.1 .. name.log.n, the
\* files numbered from the oldest
InitKept ==
  /\ \E n \in 1..MaxKept :
       /\ disk = [k \in 0..n |-> n + 1 - k]
       /\ fsize = [f \in 1..(n + 1) |-> 0]
  /\ log_files = <<>>
  /\ want_older_log = FALSE
  /\ nrot = 0
  /\ tags = <<>>
  /\ logs = <<>> /\ ver = 0 /\ res = NoResult /\ warm = {}
  /\ IdleUi
  /\ IdleGuard
  /\ IdleRead
  /\ IdleUpd

NextKept ==
  \/ set_want_older_log
  \/ prepare

SpecKept == InitKept /\ [][NextKept]_vars

\* ------------------------------------------------------------- pause / resume of the hub
\* a variant of CancellationToken::new() that hands out the old token again
Mut_NewToken(t) == t

\* CancellationToken::new(): a token that no one has cancelled
NewToken(t) == t + 1

\* a variant of join_all that does not wait
Mut_AllJoined(ts) == TRUE

\* join_all(handlers) is ready: every task has returned
AllJoined(ts) == \A i \in DOMAIN ts : ts[i].pc = "done"

\* spawn_updating: one task per log, each with its index and the new token
SpawnTasks(ls, token) ==
  [i \in DOMAIN ls |-> [index |-> i - 1, log |-> ls[i], token |-> token, pc |-> "prepare"]]

\* LogHub::open: the logs are created and handed to the first update tasks
InitGuard ==
  /\ hub_logs = <<>>
  /\ stop_token = NewToken(0)
  /\ tasks = SpawnTasks([i \in 1..NumLogs |-> [name |-> i, updates |-> 0]], NewToken(0))
  /\ cancelled = {}
  /\ main = "running"
  /\ logs = <<>> /\ tags = <<>> /\ ver = 0 /\ res = NoResult /\ warm = {}
  /\ IdleUi
  /\ IdleRot
  /\ IdleRead
  /\ IdleUpd

\* LogHub::update up to its loop: prepare() says whether the log has files
TaskPrepare(t, has_files) ==
  /\ tasks[t].pc = "prepare"
  /\ tasks' = [tasks EXCEPT ![t].pc = IF has_files THEN "loop" ELSE "done"]
  /\ UNCHANGED <<hub_logs, stop_token, cancelled, main, restOfGuard>>

\* the select of LogHub::update takes log.update()
TaskUpdate(t) ==
  /\ tasks[t].pc = "loop"
  /\ tasks[t].log.updates < MaxUpdates
  /\ tasks' = [tasks EXCEPT ![t].log.updates = @ + 1]
  /\ UNCHANGED <<hub_logs, stop_token, cancelled, main, restOfGuard>>

\* the select of LogHub::update takes stop_token.cancelled(): the task returns
TaskStop(t) ==
  /\ tasks[t].pc = "loop"
  /\ tasks[t].token \in cancelled
  /\ tasks' = [tasks EXCEPT ![t].pc = "done"]
  /\ UNCHANGED <<hub_logs, stop_token, cancelled, main, restOfGuard>>

\* data(), up to the await of join_all in stop_updating
DataBegin ==
  /\ main = "running"
  /\ stop_token < MaxTokens
  /\ cancelled' = cancelled \cup {stop_token}
  /\ main' = "stopping"
  /\ UNCHANGED <<hub_logs, tasks, stop_token, restOfGuard>>

\* the tasks that have returned / that have not
IsDone(t) == t.pc = "done"
IsRunning(t) == t.pc # "done"

\* results.sort_by_key(|(index, _)| *index), then the logs of the results
SortedLogs(rs) ==
  [i \in 1..Len(rs) |->
     rs[CHOOSE t \in DOMAIN rs :
          Cardinality({u \in DOMAIN rs : rs[u].index < rs[t].index}) = i - 1].log]

\* data(), from join_all on: the results sorted by index are the hub's logs
\* again, and the guard is made
DataReturns ==
  /\ main = "stopping"
  /\ AllJoined(tasks)
  /\ hub_logs' = SortedLogs(SelectSeq(tasks, IsDone))
  /\ tasks' = SelectSeq(tasks, IsRunning)
  /\ main' = "guard"
  /\ UNCHANGED <<stop_token, cancelled, restOfGuard>>

\* the guard is dropped: spawn_updating
GuardDrop ==
  /\ main = "guard"
  /\ stop_token' = NewToken(stop_token)
  /\ tasks' = SpawnTasks(hub_logs, NewToken(stop_token))
  /\ hub_logs' = <<>>
  /\ main' = "running"
  /\ UNCHANGED <<cancelled, restOfGuard>>

NextGuard ==
  \/ \E t \in DOMAIN tasks : \E has_files \in BOOLEAN : TaskPrepare(t, has_files)
  \/ \E t \in DOMAIN tasks : TaskUpdate(t)
  \/ \E t \in DOMAIN tasks : TaskStop(t)
  \/ DataBegin
  \/ DataReturns
  \/ GuardDrop

SpecGuard == InitGuard /\ [][NextGuard]_vars

\* close(), up to the await of join_all in stop_updating; on a hub that is
\* closed already there is no handle to wait for
HubClose ==
  /\ main \in {"running", "closed"}
  /\ cancelled' = cancelled \cup {stop_token}
  /\ main' = "closing"
  /\ UNCHANGED <<hub_logs, tasks, stop_token, restOfGuard>>

\* close(), from join_all on: the logs of the results are the hub's logs, no
\* task is spawned
HubCloseReturns ==
  /\ main = "closing"
  /\ AllJoined(tasks)
  /\ hub_logs' = SortedLogs(SelectSeq(tasks, IsDone))
  /\ tasks' = SelectSeq(tasks, IsRunning)
  /\ main' = "closed"
  /\ UNCHANGED <<stop_token, cancelled, restOfGuard>>

\* data() on a closed hub, up to the await of join_all in stop_updating
DataBeginClosed ==
  /\ main = "closed"
  /\ stop_token < MaxTokens
  /\ cancelled' = cancelled \cup {stop_token}
  /\ main' = "stopping"
  /\ UNCHANGED <<hub_logs, tasks, stop_token, restOfGuard>>

NextClose ==
  \/ \E t \in DOMAIN tasks : \E has_files \in BOOLEAN : TaskPrepare(t, has_files)
  \/ \E t \in DOMAIN tasks : TaskUpdate(t)
  \/ \E t \in DOMAIN tasks : TaskStop(t)
  \/ DataBegin
  \/ DataBeginClosed
  \/ DataReturns
  \/ GuardDrop
  \/ HubClose
  \/ HubCloseReturns

SpecClose == InitGuard /\ [][NextClose]_vars

\* ------------------------------------------------------------- the tasks data() joins
\* The guard cycle again, with what the task of a log can meet on its way:
\* a log is [name, updates, files: the number of loaded files, want_older].
NewLog(i) == [name |-> i, updates |-> 0, files |-> 0, want_older |-> FALSE]

\* LogHub::open
InitJoin ==
  /\ hub_logs = <<>>
  /\ stop_token = NewToken(0)
  /\ tasks = SpawnTasks([i \in 1..NumLogs |-> NewLog(i)], NewToken(0))
  /\ cancelled = {}
  /\ main = "running"
  /\ logs = <<>> /\ tags = <<>> /\ ver = 0 /\ res = NoResult /\ warm = {}
  /\ IdleUi
  /\ IdleRot
  /\ IdleRead
  /\ IdleUpd

\* prepare(), which has no cancellation point.  maybe_load_latest_log finds
\* no file to load ("none"), the live file ("live": a TailReader) or, there
\* being no live file, a rotated one ("rotated": a HeadReader);
\* maybe_load_older_log, when asked and a file is loaded, finds an older file
\* or not.  LogFile::open starts the reader, and HeadReader::start is todo!().
JoinPrepare(t, latest, older) ==
  /\ t \in DOMAIN tasks
  /\ tasks[t].pc = "prepare"
  /\ latest # "none" => tasks[t].log.files < MaxFiles
  /\ LET lg == tasks[t].log
         files == IF latest = "live" THEN lg.files + 1 ELSE lg.files
         head == latest = "rotated" \/ (lg.want_older /\ files > 0 /\ older)
     IN tasks' = [tasks EXCEPT ![t].log.files = files,
                               ![t].log.want_older = IF latest = "rotated" THEN @ ELSE FALSE,
                               ![t].pc = IF head THEN "panicked"
                                         ELSE IF files > 0 THEN "loop" ELSE "done"]
  /\ UNCHANGED <<hub_logs, stop_token, cancelled, main, restOfGuard>>

\* the select of LogHub::update polls log.update(): with no file left
\* select_all panics; otherwise a file's events are handled, and the file is
\* removed on Event::Removed
JoinUpdate(t, removed) ==
  /\ t \in DOMAIN tasks
  /\ tasks[t].pc = "loop"
  /\ tasks[t].log.updates < MaxUpdates
  /\ tasks' = IF tasks[t].log.files = 0 THEN [tasks EXCEPT ![t].pc = "panicked"]
              ELSE [tasks EXCEPT ![t].log.updates = @ + 1,
                                 ![t].log.files = IF removed THEN @ - 1 ELSE @]
  /\ UNCHANGED <<hub_logs, stop_token, cancelled, main, restOfGuard>>

\* the select of LogHub::update takes stop_token.cancelled(): the task returns
JoinStop(t) ==
  /\ t \in DOMAIN tasks
  /\ tasks[t].pc = "loop"
  /\ tasks[t].token \in cancelled
  /\ tasks' = [tasks EXCEPT ![t].pc = "done"]
  /\ UNCHANGED <<hub_logs, stop_token, cancelled, main, restOfGuard>>

\* join_all is ready when every task has ended; the result of a task that
\* panicked is an Err and expect("task panicked") panics in data()
JoinReturns ==
  /\ main = "stopping"
  /\ \A t \in DOMAIN tasks : tasks[t].pc \in {"done", "panicked"}
  /\ IF \E t \in DOMAIN tasks : tasks[t].pc = "panicked"
       THEN /\ main' = "panicked"
            /\ tasks' = <<>>
            /\ UNCHANGED hub_logs
       ELSE /\ hub_logs' = SortedLogs(tasks)
            /\ tasks' = <<>>
            /\ main' = "guard"
  /\ UNCHANGED <<stop_token, cancelled, restOfGuard>>

\* try_load_older_logs under the guard: set_want_older_log of a log
JoinWantOlder(i) ==
  /\ main = "guard"
  /\ i \in DOMAIN hub_logs
  /\ ~hub_logs[i].want_older
  /\ hub_logs' = [hub_logs EXCEPT ![i].want_older = TRUE]
  /\ UNCHANGED <<tasks, stop_token, cancelled, main, restOfGuard>>

NextJoin ==
  \/ \E t \in 1..NumLogs : \E latest \in {"none", "live", "rotated"} : \E older \in BOOLEAN :
       JoinPrepare(t, latest, older)
  \/ \E t \in 1..NumLogs : \E removed \in BOOLEAN : JoinUpdate(t, removed)
  \/ \E t \in 1..NumLogs : JoinStop(t)
  \/ DataBegin
  \/ JoinReturns
  \/ \E i \in 1..NumLogs : JoinWantOlder(i)
  \/ GuardDrop

\* the runtime runs every task that can go on, and data() once join_all is
\* ready; events for log.update() may or may not arrive
SpecJoin ==
  /\ InitJoin
  /\ [][NextJoin]_vars
  /\ \A t \in 1..NumLogs :
       /\ WF_vars(\E latest \in {"none", "live", "rotated"} : \E older \in BOOLEAN :
                    JoinPrepare(t, latest, older))
       /\ WF_vars(JoinStop(t))
  /\ WF_vars(JoinReturns)

\* ------------------------------------------------------------- reading a file
\* the byte '\n'; every other byte of the file is its own offset, so that
\* every line is told from every other
NL == 0

\* Config.buffer_size and Config.channel_size of the model's reader
BufferSize == 3
ChannelSize == 4

Min(a, b) == IF a < b THEN a ELSE b
Take(s, n) == SubSeq(s, 1, n)

\* State::new_tail: a buffer before the end of the file; pos is the offset of
\* the state's own File
new_tail(len) ==
  [last_position |-> IF len > BufferSize THEN len - BufferSize ELSE 0,
   partial_buffer |-> <<>>,
   pos |-> IF len > BufferSize THEN len - BufferSize ELSE 0]

has_reached_head(st) == st.last_position = 0

\* a variant of save_head_partial that puts the buffer behind the partial line
Mut_save_head_partial(partial, buffer) ==
  Take(partial \o buffer, Min(Len(partial \o buffer), BufferSize))

\* State::save_head_partial: buffer in front of the partial line, cut to the capacity
save_head_partial(partial, buffer) ==
  LET size == Min(Len(buffer), BufferSize)
      curr_len == Min(BufferSize - size, Len(partial))
  IN Take(buffer, size) \o Take(partial, curr_len)

\* State::save_tail_partial: buffer behind the partial line, cut to the capacity
save_tail_partial(partial, buffer) ==
  partial \o Take(buffer, Min(BufferSize - Len(partial), Len(buffer)))

\* buffer.split(|c| c == '\n')
RECURSIVE Segments(_)
Segments(buffer) ==
  IF \A i \in DOMAIN buffer : buffer[i] # NL THEN <<buffer>>
  ELSE LET i == CHOOSE j \in DOMAIN buffer :
                  buffer[j] = NL /\ \A k \in 1..(j - 1) : buffer[k] # NL
       IN <<Take(buffer, i - 1)>> \o Segments(SubSeq(buffer, i + 1, Len(buffer)))

\* the BufferParts read_buffer returns for the bytes read
BufferParts(buffer) ==
  LET segs == Segments(buffer)
  IN [head |-> segs[1],
      middle |-> SubSeq(segs, 2, Len(segs) - 1),
      has_tail |-> Len(segs) >= 2,
      tail |-> segs[Len(segs)],
      tail_is_end |-> buffer[Len(buffer)] = NL]

\* the steps a read makes after read_buffer, the sends being its await points
Op(op, buf, end) == [op |-> op, buf |-> buf, end |-> end]
IsSend(o) == o.op \in {"send_head", "send_tail", "send_head_for", "send_tail_for"}

\* Reader::update_head_line for a state at last_position
update_head_line(last_position, buffer) ==
  <<Op("save_head", buffer, FALSE)>>
    \o (IF last_position = 0 THEN <<Op("send_head", <<>>, FALSE)>> ELSE <<>>)

\* Reader::read_head_lines after read_buffer
read_head_lines(last_position, parts) ==
  (IF parts.has_tail
     THEN <<Op("save_head", parts.tail, FALSE), Op("send_head", <<>>, FALSE)>>
            \o [i \in 1..Len(parts.middle) |->
                  Op("send_head_for", parts.middle[Len(parts.middle) + 1 - i], FALSE)]
     ELSE <<>>)
    \o update_head_line(last_position, parts.head)

\* Reader::read_tail_lines after read_buffer
read_tail_lines(parts) ==
  IF parts.has_tail
    THEN <<Op("save_tail", parts.head, FALSE), Op("send_tail", <<>>, FALSE)>>
           \o [i \in 1..Len(parts.middle) |-> Op("send_tail_for", parts.middle[i], FALSE)]
           \o <<Op("update_tail_line", parts.tail, parts.tail_is_end)>>
    ELSE <<Op("update_tail_line", parts.head, parts.tail_is_end)>>

\* TailReader::init_read after read_buffer
init_read(last_position, parts) ==
  IF parts.has_tail
    THEN update_head_line(last_position, parts.head)
           \o [i \in 1..Len(parts.middle) |-> Op("send_tail_for", parts.middle[i], FALSE)]
           \o <<Op("update_tail_line", parts.tail, parts.tail_is_end)>>
    ELSE update_head_line(last_position, parts.head)

\* run the steps up to the next send: sts.head / sts.tail are the two states
RECURSIVE Advance(_, _)
Advance(sts, ops) ==
  IF ops = <<>> \/ IsSend(Head(ops)) THEN [states |-> sts, ops |-> ops]
  ELSE LET o == Head(ops) IN
    CASE o.op = "save_head" ->
           Advance([sts EXCEPT !.head.partial_buffer = save_head_partial(@, o.buf)], Tail(ops))
      [] o.op = "save_tail" ->
           Advance([sts EXCEPT !.tail.partial_buffer = save_tail_partial(@, o.buf)], Tail(ops))
      [] o.op = "update_tail_line" ->
           Advance([sts EXCEPT !.tail.partial_buffer = save_tail_partial(@, o.buf)],
                   (IF o.end /\ save_tail_partial(sts.tail.partial_buffer, o.buf) # <<>>
                      THEN <<Op("send_tail", <<>>, FALSE)>> ELSE <<>>) \o Tail(ops))

\* Event::send_head / Event::send_tail of the send the read waits in
EventOf(sts, o) ==
  CASE o.op = "send_head" -> [kind |-> "NewHead", line |-> sts.head.partial_buffer]
    [] o.op = "send_tail" -> [kind |-> "NewTail", line |-> sts.tail.partial_buffer]
    [] o.op = "send_head_for" -> [kind |-> "NewHead", line |-> o.buf]
    [] o.op = "send_tail_for" -> [kind |-> "NewTail", line |-> o.buf]

\* State::send_head / send_tail clear the partial line once the send is through
AfterSend(sts, o) ==
  CASE o.op = "send_head" -> [sts EXCEPT !.head.partial_buffer = <<>>]
    [] o.op = "send_tail" -> [sts EXCEPT !.tail.partial_buffer = <<>>]
    [] OTHER -> sts

\* a read future that is not running
NoRead == [pc |-> "idle", ops |-> <<>>, size |-> 0, before |-> <<>>, dropped |-> FALSE, drops |-> 0]

\* the files a reader is opened on: any bytes, any newlines
Files == UNION {{[i \in 1..n |-> IF i \in nl THEN NL ELSE i] : nl \in SUBSET (1..n)} : n \in 0..(MaxBytes - 1)}

\* run the steps to their end, sending into a channel that has room
RECURSIVE RunAll(_, _)
RunAll(r, ch) ==
  IF r.ops = <<>> THEN [states |-> r.states, tx |-> ch]
  ELSE RunAll(Advance(AfterSend(r.states, Head(r.ops)), Tail(r.ops)),
              Append(ch, EventOf(r.states, Head(r.ops))))

\* TailReader::open and TailReader::start on file f: both states are made by
\* new_tail, init_read reads one buffer with the tail state and the two read
\* tasks are spawned
StartReader(f) ==
  LET st == new_tail(Len(f))
      n == Min(BufferSize, Len(f) - st.pos)
      ts == [st EXCEPT !.pos = @ + n, !.last_position = @ + n]
      sts == [head |-> st, tail |-> ts]
  IN IF n = 0 THEN [states |-> sts, tx |-> <<>>]
     ELSE RunAll(Advance(sts, init_read(st.last_position,
                                        BufferParts(SubSeq(f, st.pos + 1, st.pos + n)))),
                 <<>>)

InitRead ==
  /\ file_bytes \in Files
  /\ states = StartReader(file_bytes).states
  /\ tx = StartReader(file_bytes).tx
  /\ received = <<>>
  /\ reads = [d \in {"head", "tail"} |-> NoRead]
  /\ tail_watch = [changed |-> FALSE, appended |-> 0]
  /\ logs = <<>> /\ tags = <<>> /\ ver = 0 /\ res = NoResult /\ warm = {}
  /\ IdleUi
  /\ IdleRot
  /\ IdleGuard
  /\ IdleUpd

\* what a dropped read is compared with: the offset and the partial line
Snapshot(st) == [last_position |-> st.last_position, partial_buffer |-> st.partial_buffer]

\* the read goes on with its steps: it waits in the next send or has returned
Proceed(d, r) ==
  /\ states' = r.states
  /\ reads' = [reads EXCEPT ![d].pc = IF r.ops = <<>> THEN "idle" ELSE "send",
                            ![d].ops = r.ops]

\* the loop of spawn_reading_head calls read_head_lines: read_buffer moves
\* last_position back by a buffer and waits in the seek it has issued
ReadHeadBegin ==
  LET st == states.head
      last == IF st.last_position > BufferSize THEN st.last_position - BufferSize ELSE 0
      buffer_size == st.last_position - last
  IN /\ reads.head.pc = "idle"
     /\ ~has_reached_head(st)
     /\ states' = [states EXCEPT !.head.last_position = last, !.head.pos = @ - buffer_size]
     /\ reads' = [reads EXCEPT !.head = [@ EXCEPT !.pc = "seek", !.size = buffer_size,
                                                   !.before = Snapshot(st), !.dropped = FALSE]]
     /\ UNCHANGED <<file_bytes, tx, received, tail_watch, restOfRead>>

\* watcher.changed() returns Content for the change notified last (the watch
\* channel keeps one value; the bytes may have been read already):
\* read_tail_lines, read_buffer waits in the read
ReadTailBegin ==
  /\ reads.tail.pc = "idle"
  /\ tail_watch.changed
  /\ tail_watch' = [tail_watch EXCEPT !.changed = FALSE]
  /\ reads' = [reads EXCEPT !.tail = [@ EXCEPT !.pc = "read", !.size = BufferSize,
                                                !.before = Snapshot(states.tail), !.dropped = FALSE]]
  /\ UNCHANGED <<file_bytes, states, tx, received, restOfRead>>

\* the seek before the read of a head read is through
SeekDone ==
  /\ reads.head.pc = "seek"
  /\ reads' = [reads EXCEPT !.head.pc = "read"]
  /\ UNCHANGED <<file_bytes, states, tx, received, tail_watch, restOfRead>>

\* file.read(buffer) is through: a tail read adds the bytes to last_position
\* and goes on with its lines; a head read issues the seek back and waits in it
ReadDone(d) ==
  LET st == states[d]
      bytes_read == Min(reads[d].size, Len(file_bytes) - st.pos)
      parts == BufferParts(SubSeq(file_bytes, st.pos + 1, st.pos + bytes_read))
  IN /\ reads[d].pc = "read"
     /\ IF bytes_read = 0
          THEN /\ reads' = [reads EXCEPT ![d].pc = "idle"]
               /\ UNCHANGED states
          ELSE IF d = "head"
            THEN /\ reads' = [reads EXCEPT ![d].pc = "seek_back",
                                           ![d].ops = read_head_lines(st.last_position, parts)]
                 /\ UNCHANGED states
            ELSE \E r \in {Advance([states EXCEPT ![d].pos = @ + bytes_read,
                                                  ![d].last_position = @ + bytes_read],
                                   read_tail_lines(parts))} : Proceed(d, r)
     /\ UNCHANGED <<file_bytes, tx, received, tail_watch, restOfRead>>

\* the seek back of a head read is through: read_head_lines goes on with the lines
SeekBackDone ==
  /\ reads.head.pc = "seek_back"
  /\ \E r \in {Advance(states, reads.head.ops)} : Proceed("head", r)
  /\ UNCHANGED <<file_bytes, tx, received, tail_watch, restOfRead>>

\* the send the read waits in is through
SendDone(d) ==
  /\ reads[d].pc = "send"
  /\ Len(tx) < ChannelSize
  /\ tx' = Append(tx, EventOf(states, Head(reads[d].ops)))
  /\ \E r \in {Advance(AfterSend(states, Head(reads[d].ops)), Tail(reads[d].ops))} : Proceed(d, r)
  /\ UNCHANGED <<file_bytes, received, tail_watch, restOfRead>>

\* the future of the read is dropped at the await it waits in
DropRead(d) ==
  /\ reads[d].pc # "idle"
  /\ reads[d].drops < MaxDrops
  /\ reads' = [reads EXCEPT ![d] = [NoRead EXCEPT !.before = reads[d].before, !.dropped = TRUE,
                                                   !.drops = reads[d].drops + 1]]
  /\ UNCHANGED <<file_bytes, states, tx, received, tail_watch, restOfRead>>

\* the program that writes the file appends a byte; notify reports the change
AppendByte(newline) ==
  /\ Len(file_bytes) < MaxBytes
  /\ file_bytes' = Append(file_bytes, IF newline THEN NL ELSE Len(file_bytes) + 1)
  /\ tail_watch' = [changed |-> TRUE, appended |-> tail_watch.appended + 1]
  /\ UNCHANGED <<states, tx, received, reads, restOfRead>>

\* Reader::changed: the owner of the reader takes an event
Changed ==
  /\ tx # <<>>
  /\ received' = Append(received, Head(tx))
  /\ tx' = Tail(tx)
  /\ UNCHANGED <<file_bytes, states, reads, tail_watch, restOfRead>>

\* a reader started on a file that nobody writes: only the head task has work
InitStill ==
  /\ file_bytes \in UNION {{[i \in 1..n |-> IF i \in nl THEN NL ELSE i] : nl \in SUBSET (1..n)} : n \in 0..MaxStill}
  /\ states = StartReader(file_bytes).states
  /\ tx = StartReader(file_bytes).tx
  /\ received = <<>>
  /\ reads = [d \in {"head", "tail"} |-> NoRead]
  /\ tail_watch = [changed |-> FALSE, appended |-> 0]
  /\ logs = <<>> /\ tags = <<>> /\ ver = 0 /\ res = NoResult /\ warm = {}
  /\ IdleUi
  /\ IdleRot
  /\ IdleGuard
  /\ IdleUpd

NextStill ==
  \/ ReadHeadBegin
  \/ SeekDone
  \/ ReadDone("head")
  \/ SeekBackDone
  \/ SendDone("head")
  \/ Changed

SpecStill == InitStill /\ [][NextStill]_vars

NextRead ==
  \/ ReadHeadBegin
  \/ ReadTailBegin
  \/ SeekDone
  \/ \E d \in {"head", "tail"} : ReadDone(d)
  \/ SeekBackDone
  \/ \E d \in {"head", "tail"} : SendDone(d)
  \/ \E d \in {"head", "tail"} : DropRead(d)
  \/ \E newline \in BOOLEAN : AppendByte(newline)
  \/ Changed

SpecRead == InitRead /\ [][NextRead]_vars

\* a reader inside TailReader::open: the head state is made, the tail state is
\* not, no task is spawned
Unspawned == [NoRead EXCEPT !.pc = "open"]

InitOpen ==
  /\ file_bytes \in Files
  /\ states = [head |-> new_tail(Len(file_bytes))]
  /\ tx = <<>>
  /\ received = <<>>
  /\ reads = [d \in {"head", "tail"} |-> Unspawned]
  /\ tail_watch = [changed |-> FALSE, appended |-> 0]
  /\ logs = <<>> /\ tags = <<>> /\ ver = 0 /\ res = NoResult /\ warm = {}
  /\ IdleUi
  /\ IdleRot
  /\ IdleGuard
  /\ IdleUpd

\* the program that writes the file appends a byte while open is running: no
\* watcher exists yet
OpenGrow(newline) ==
  /\ reads.head.pc = "open"
  /\ Len(file_bytes) < MaxBytes
  /\ file_bytes' = Append(file_bytes, IF newline THEN NL ELSE Len(file_bytes) + 1)
  /\ UNCHANGED <<states, tx, received, reads, tail_watch, restOfRead>>

\* TailReader::open makes the tail state: new_tail asks the file for its
\* length again
OpenTail ==
  /\ DOMAIN states = {"head"}
  /\ states' = [head |-> states.head, tail |-> new_tail(Len(file_bytes))]
  /\ UNCHANGED <<file_bytes, tx, received, reads, tail_watch, restOfRead>>

\* TailReader::start: init_read reads one buffer with the tail state, its
\* first part goes to the head state; then the two tasks are spawned
Start ==
  LET st == states.tail
      n == Min(BufferSize, Len(file_bytes) - st.pos)
      sts == [states EXCEPT !.tail.pos = @ + n, !.tail.last_position = @ + n]
  IN /\ DOMAIN states = {"head", "tail"}
     /\ reads.head.pc = "open"
     /\ \E r \in {IF n = 0 THEN [states |-> sts, tx |-> <<>>]
                  ELSE RunAll(Advance(sts, init_read(states.head.last_position,
                                BufferParts(SubSeq(file_bytes, st.pos + 1, st.pos + n)))),
                              <<>>)} :
          /\ states' = r.states
          /\ tx' = r.tx
     /\ reads' = [d \in {"head", "tail"} |-> NoRead]
     /\ UNCHANGED <<file_bytes, received, tail_watch, restOfRead>>

NextOpen ==
  \/ \E newline \in BOOLEAN : OpenGrow(newline)
  \/ OpenTail
  \/ Start
  \/ ReadHeadBegin
  \/ SeekDone
  \/ ReadDone("head")
  \/ SeekBackDone
  \/ SendDone("head")
  \/ Changed

SpecOpen == InitOpen /\ [][NextOpen]_vars

\* a started reader on a file that nobody writes, with the future of
\* TailReader::stop next to the two tasks: reads.stop.pc is "idle" until stop
\* is called
InitStop ==
  /\ file_bytes \in UNION {{[i \in 1..n |-> IF i \in nl THEN NL ELSE i] : nl \in SUBSET (1..n)} : n \in 0..MaxStill}
  /\ states = StartReader(file_bytes).states
  /\ tx = StartReader(file_bytes).tx
  /\ received = <<>>
  /\ reads = [d \in {"head", "tail", "stop"} |-> NoRead]
  /\ tail_watch = [changed |-> FALSE, appended |-> 0]
  /\ logs = <<>> /\ tags = <<>> /\ ver = 0 /\ res = NoResult /\ warm = {}
  /\ IdleUi
  /\ IdleRot
  /\ IdleGuard
  /\ IdleUpd

\* cancel_token: cancelled by stop and by the watching task when it ends
is_cancelled == reads.stop.pc # "idle" \/ reads.tail.pc = "done"

\* the loop of spawn_reading_head goes on while the token is not cancelled
ReadingHead ==
  /\ ~is_cancelled
  /\ ReadHeadBegin

\* the loop of spawn_reading_head ends between two reads
HeadEnds ==
  /\ reads.head.pc = "idle"
  /\ has_reached_head(states.head) \/ is_cancelled
  /\ reads' = [reads EXCEPT !.head.pc = "done"]
  /\ UNCHANGED <<file_bytes, states, tx, received, tail_watch, restOfRead>>

\* the select of spawn_watching_change takes cancel_token.cancelled()
TailEnds ==
  /\ reads.tail.pc = "idle"
  /\ is_cancelled
  /\ reads' = [reads EXCEPT !.tail.pc = "done"]
  /\ UNCHANGED <<file_bytes, states, tx, received, tail_watch, restOfRead>>

\* TailReader::stop: cancel, then wait for the head task
stop ==
  /\ reads.stop.pc = "idle"
  /\ reads' = [reads EXCEPT !.stop.pc = "join_head"]
  /\ UNCHANGED <<file_bytes, states, tx, received, tail_watch, restOfRead>>

\* jh_reading_head.await returns, stop waits for the watching task
JoinHead ==
  /\ reads.stop.pc = "join_head"
  /\ reads.head.pc = "done"
  /\ reads' = [reads EXCEPT !.stop.pc = "join_tail"]
  /\ UNCHANGED <<file_bytes, states, tx, received, tail_watch, restOfRead>>

\* jh_reading_tail.await returns and so does stop
JoinTail ==
  /\ reads.stop.pc = "join_tail"
  /\ reads.tail.pc = "done"
  /\ reads' = [reads EXCEPT !.stop.pc = "returned"]
  /\ UNCHANGED <<file_bytes, states, tx, received, tail_watch, restOfRead>>

\* the owner takes an event; inside stop it does not
Receive ==
  /\ reads.stop.pc = "idle"
  /\ Changed

NextStop ==
  \/ ReadingHead
  \/ SeekDone
  \/ ReadDone("head")
  \/ SeekBackDone
  \/ SendDone("head")
  \/ HeadEnds
  \/ TailEnds
  \/ stop
  \/ JoinHead
  \/ JoinTail
  \/ Receive

\* the runtime runs every task that can make a step
SpecStop ==
  /\ InitStop
  /\ [][NextStop]_vars
  /\ WF_vars(ReadingHead) /\ WF_vars(SeekDone) /\ WF_vars(ReadDone("head"))
  /\ WF_vars(SeekBackDone) /\ WF_vars(SendDone("head"))
  /\ WF_vars(HeadEnds) /\ WF_vars(TailEnds) /\ WF_vars(JoinHead) /\ WF_vars(JoinTail)

\* ------------------------------------------------------------------ the watcher
\* the kinds of notify events: changed() answers Content for the first two
ContentKinds == {"Modify", "CloseWrite"}
NotifyKinds == ContentKinds \cup {"Open", "CloseRead", "Other"}

\* notifications the model delivers
MaxNotify == 4

\* Watcher::new and Watcher::start: the two watch channels hold their initial
\* values, marked as seen; tail_watch.sent counts the notifications, received
\* is what changed() has returned
InitWatch ==
  /\ tail_watch = [changed |-> FALSE, kind |-> "Any", meta_changed |-> FALSE, meta |-> "Any",
                   polling |-> TRUE, sent |-> 0]
  /\ received = <<>>
  /\ file_bytes = <<>>
  /\ states = <<>>
  /\ tx = <<>>
  /\ reads = <<>>
  /\ logs = <<>> /\ tags = <<>> /\ ver = 0 /\ res = NoResult /\ warm = {}
  /\ IdleUi
  /\ IdleRot
  /\ IdleGuard
  /\ IdleUpd

\* the callback given to notify: content_event_tx.send(res) replaces the value
\* of the watch channel
Notified(kind) ==
  /\ tail_watch.sent < MaxNotify
  /\ tail_watch' = [tail_watch EXCEPT !.changed = TRUE, !.kind = kind, !.sent = @ + 1]
  /\ UNCHANGED <<file_bytes, states, tx, received, reads, restOfRead>>

\* the poll of spawn_watching_path_changed finds the path renamed or removed
PathChanged(event) ==
  /\ tail_watch.polling
  /\ tail_watch.sent < MaxNotify
  /\ tail_watch' = [tail_watch EXCEPT !.meta_changed = TRUE, !.meta = event, !.sent = @ + 1,
                                      !.polling = event # "Removed"]
  /\ UNCHANGED <<file_bytes, states, tx, received, reads, restOfRead>>

\* one turn of the loop of Watcher::changed: the select takes a channel that
\* has changed, marks its value as seen and returns or goes on
WatcherChanged ==
  /\ \/ /\ tail_watch.changed
        /\ tail_watch' = [tail_watch EXCEPT !.changed = FALSE]
        /\ received' = IF tail_watch.kind \in ContentKinds
                         THEN Append(received, "Content") ELSE received
     \/ /\ tail_watch.meta_changed
        /\ tail_watch' = [tail_watch EXCEPT !.meta_changed = FALSE]
        /\ received' = IF tail_watch.meta = "Any"
                         THEN received ELSE Append(received, tail_watch.meta)
  /\ UNCHANGED <<file_bytes, states, tx, reads, restOfRead>>

NextWatch ==
  \/ \E kind \in NotifyKinds : Notified(kind)
  \/ \E event \in {"Renamed", "Removed"} : PathChanged(event)
  \/ WatcherChanged

\* the task that calls changed() is run when a channel has changed
SpecWatch == InitWatch /\ [][NextWatch]_vars /\ WF_vars(WatcherChanged)

\* ------------------------------------------------------------- updating a log
\* the events a reader sends: the n-th event of a file is a line read towards
\* the head or the tail (tag "-" for a line that does not parse), a rename or
\* the removal
EventKinds == {"NewHead", "NewTail", "Renamed", "Removed"}
LineTags == {"ta", "-"}

\* an update future that is not running
NoUpdate == [pc |-> "idle", events |-> <<>>, result |-> <<>>, before |-> <<>>,
             tagged |-> {}, dropped |-> FALSE, lost |-> <<>>]

\* RotatedLog after prepare(): its files (the first n of NumFiles; `removed`
\* says a file is not in log_files, `failed` that the watching task of its
\* reader has ended on a read error) are open, nothing has been read yet;
\* the update task of LogHub::update is at the top of its loop
InitUpd ==
  /\ channels = [f \in 1..NumFiles |-> <<>>]
  /\ \E n \in 1..NumFiles :
       lfiles = [f \in 1..NumFiles |-> [content |-> <<>>, path |-> 0, removed |-> f > n, sent |-> 0,
                                         failed |-> FALSE]]
  /\ data_board = [tags |-> {}, locked |-> FALSE]
  /\ updates = [f \in 1..NumFiles |-> NoUpdate]
  /\ utask = [pc |-> "idle", stops |-> 0]
  /\ logs = <<>> /\ tags = <<>> /\ ver = 0 /\ res = NoResult /\ warm = {}
  /\ IdleUi
  /\ IdleRot
  /\ IdleGuard
  /\ IdleRead

\* LogFile::update_data_board and the push of the new line
ApplyLine(lf, e) ==
  [lf EXCEPT !.content = IF e.kind = "NewHead" THEN <<[n |-> e.n, tag |-> e.tag]>> \o @
                         ELSE Append(@, [n |-> e.n, tag |-> e.tag])]

\* a variant of update_tag that registers nothing
Mut_update_tag(registry, e) == registry

\* DataBoard::update_tag of a line's tag
update_tag(registry, e) == IF e.tag = "-" THEN registry ELSE registry \cup {e.tag}

\* the loop of LogFile::update over the events it has taken, up to the lock it
\* has to wait for (locked) or to its end
RECURSIVE Process(_, _, _, _)
Process(lf, registry, u, locked) ==
  IF u.events = <<>> THEN [file |-> lf, tags |-> registry, update |-> [u EXCEPT !.pc = "done"]]
  ELSE LET e == Head(u.events)
           rest == [u EXCEPT !.events = Tail(@)]
       IN CASE e.kind = "Renamed" -> Process([lf EXCEPT !.path = e.n], registry, rest, locked)
            [] e.kind = "Removed" ->
                 Process(lf, registry, [rest EXCEPT !.result = Append(@, e)], locked)
            [] OTHER ->
                 IF locked THEN [file |-> lf, tags |-> registry, update |-> [u EXCEPT !.pc = "lock"]]
                 ELSE Process(ApplyLine(lf, e), update_tag(registry, e),
                              [rest EXCEPT !.tagged = @ \cup (update_tag(registry, e) \ registry)],
                              locked)

\* a future that is dropped: the events it holds go with it
Dropped(u) ==
  IF u.pc \in {"recv", "lock"}
    THEN [NoUpdate EXCEPT !.before = u.before, !.tagged = u.tagged, !.dropped = TRUE,
                          !.lost = u.events]
    ELSE u

\* the future of file f has gone on to r: either it waits for the lock, or it
\* is ready, select_all drops the other futures, RotatedLog::update removes
\* and closes the file on Removed, and the task is at the top of its loop again
Settle(f, r) ==
  /\ data_board' = [data_board EXCEPT !.tags = r.tags]
  /\ IF r.update.pc = "lock"
       THEN /\ lfiles' = [lfiles EXCEPT ![f] = r.file]
            /\ updates' = [updates EXCEPT ![f] = r.update]
            /\ UNCHANGED utask
       ELSE /\ lfiles' = [lfiles EXCEPT ![f] = [r.file EXCEPT !.removed = r.update.result # <<>>]]
            /\ updates' = [g \in DOMAIN updates |-> IF g = f THEN NoUpdate ELSE Dropped(updates[g])]
            /\ utask' = [utask EXCEPT !.pc = "idle"]

\* the reader of file f sends its next event; once the watching task has
\* ended only the backward task can still send what it was reading
Emit(f, kind, tag) ==
  /\ lfiles[f].sent < MaxEvents
  /\ lfiles[f].failed => kind = "NewHead"
  /\ Len(channels[f]) < ChannelSize
  /\ \A i \in DOMAIN channels[f] : channels[f][i].kind # "Removed"
  /\ ~lfiles[f].removed
  /\ channels' = [channels EXCEPT ![f] = Append(@, [kind |-> kind, n |-> lfiles[f].sent + 1,
                                                      tag |-> IF kind \in {"NewHead", "NewTail"} THEN tag ELSE "-"])]
  /\ lfiles' = [lfiles EXCEPT ![f].sent = @ + 1]
  /\ UNCHANGED <<data_board, updates, utask, restOfUpd>>

\* read_tail_lines of file f returns Err: the watching task prints the error,
\* leaves its loop and cancels the token; it sends no event
ReadError(f) ==
  /\ ~lfiles[f].removed
  /\ ~lfiles[f].failed
  /\ \A i \in DOMAIN channels[f] : channels[f][i].kind # "Removed"
  /\ lfiles' = [lfiles EXCEPT ![f].failed = TRUE]
  /\ UNCHANGED <<channels, data_board, updates, utask, restOfUpd>>

\* LogHub::update calls log.update(): RotatedLog::update makes one
\* LogFile::update future per file and waits in select_all
UpdateBegin ==
  /\ utask.pc = "idle"
  /\ \E f \in DOMAIN lfiles : ~lfiles[f].removed
  /\ updates' = [f \in DOMAIN updates |->
                   IF lfiles[f].removed THEN NoUpdate
                   ELSE [NoUpdate EXCEPT !.pc = "recv",
                                         !.before = [content |-> lfiles[f].content, path |-> lfiles[f].path]]]
  /\ utask' = [utask EXCEPT !.pc = "updating"]
  /\ UNCHANGED <<channels, lfiles, data_board, restOfUpd>>

\* LogHub::update calls log.update() on a log whose last file was removed:
\* select_all of no future panics, and the panic ends the update task
UpdateEmpty ==
  /\ utask.pc = "idle"
  /\ \A f \in DOMAIN lfiles : lfiles[f].removed
  /\ utask' = [utask EXCEPT !.pc = "panicked"]
  /\ UNCHANGED <<channels, lfiles, data_board, updates, restOfUpd>>

\* reader.changed() hands the future of file f the first k events of the channel
Recv(f, k) ==
  /\ updates[f].pc = "recv"
  /\ k \in 1..Len(channels[f])
  /\ channels' = [channels EXCEPT ![f] = SubSeq(@, k + 1, Len(@))]
  /\ \E r \in {Process(lfiles[f], data_board.tags,
                       [updates[f] EXCEPT !.events = Take(channels[f], k)],
                       data_board.locked)} : Settle(f, r)
  /\ UNCHANGED restOfUpd

\* the future of file f gets the lock of the data board it waited for
LockAcquired(f) ==
  /\ updates[f].pc = "lock"
  /\ ~data_board.locked
  /\ \E r \in {Process(lfiles[f], data_board.tags, updates[f], FALSE)} : Settle(f, r)
  /\ UNCHANGED <<channels, restOfUpd>>

\* the update task of another log takes or releases the lock of the data board
OtherLock(b) ==
  /\ data_board.locked # b
  /\ data_board' = [data_board EXCEPT !.locked = b]
  /\ UNCHANGED <<channels, lfiles, updates, utask, restOfUpd>>

\* the hub's stop token fires: the select of LogHub::update drops log.update()
\* with all its futures, and the task returns
Stop ==
  /\ utask.pc = "updating"
  /\ utask.stops < MaxStops
  /\ updates' = [f \in DOMAIN updates |-> Dropped(updates[f])]
  /\ utask' = [pc |-> "stopped", stops |-> utask.stops + 1]
  /\ UNCHANGED <<channels, lfiles, data_board, restOfUpd>>

\* the guard is dropped: a new update task comes to the top of its loop
Resume ==
  /\ utask.pc = "stopped"
  /\ utask' = [utask EXCEPT !.pc = "idle"]
  /\ UNCHANGED <<channels, lfiles, data_board, updates, restOfUpd>>

NextUpd ==
  \/ \E f \in 1..NumFiles : \E kind \in EventKinds : \E tag \in LineTags : Emit(f, kind, tag)
  \/ \E f \in 1..NumFiles : ReadError(f)
  \/ UpdateBegin
  \/ UpdateEmpty
  \/ \E f \in 1..NumFiles : \E k \in 1..ChannelSize : Recv(f, k)
  \/ \E f \in 1..NumFiles : LockAcquired(f)
  \/ \E b \in BOOLEAN : OtherLock(b)
  \/ Stop
  \/ Resume

SpecUpd == InitUpd /\ [][NextUpd]_vars

\* ------------------------------------------------------------- the pager
\* the pages registered with add_page; NoPage is an index nobody registered
NumPages == 3
Pages == 1..NumPages
NoPage == NumPages + 1
Modes == {"Left", "Right", "Full"}

PageMode(mode, index) == [mode |-> mode, index |-> index]

\* Pager::close: the first record of the page is removed.  [stack, closed]
close(stack, index) ==
  IF \E i \in DOMAIN stack : stack[i].index = index
  THEN LET i == CHOOSE j \in DOMAIN stack :
                  stack[j].index = index /\ \A k \in 1..(j - 1) : stack[k].index # index
       IN [stack |-> SubSeq(stack, 1, i - 1) \o SubSeq(stack, i + 1, Len(stack)), closed |-> TRUE]
  ELSE [stack |-> stack, closed |-> FALSE]

\* open_page_or_move_to_top
open_page_or_move_to_top(stack, page_mode) ==
  <<page_mode>> \o close(stack, page_mode.index).stack

\* check_full_page: a full page on top is reopened in the new mode when it is
\* the page asked for, and nothing else is opened.  [stack, handled]
check_full_page(stack, new_page_mode) ==
  IF stack # <<>> /\ stack[1].mode = "Full"
  THEN [stack |-> IF stack[1].index = new_page_mode.index
                  THEN [stack EXCEPT ![1] = new_page_mode] ELSE stack,
        handled |-> TRUE]
  ELSE [stack |-> stack, handled |-> FALSE]

open_page(stack, new_page_mode) ==
  IF new_page_mode.index \notin Pages THEN stack
  ELSE IF check_full_page(stack, new_page_mode).handled
    THEN check_full_page(stack, new_page_mode).stack
  ELSE open_page_or_move_to_top(stack, new_page_mode)

toggle_page(stack, new_page_mode) ==
  IF close(stack, new_page_mode.index).closed THEN close(stack, new_page_mode.index).stack
  ELSE open_page(stack, new_page_mode)

\* Pager::new with its pages added
InitPager ==
  /\ pages_stack = <<>>
  /\ matcher = NoMatcher
  /\ logs = <<>> /\ tags = <<>> /\ ver = 0 /\ res = NoResult /\ warm = {}
  /\ IdleRot
  /\ IdleGuard
  /\ IdleRead
  /\ IdleUpd

\* open_left / open_right / open_full
Open(mode, index) ==
  /\ pages_stack' = open_page(pages_stack, PageMode(mode, index))
  /\ UNCHANGED <<matcher, restOfUi>>

\* toggle_left / toggle_right / toggle_full
Toggle(mode, index) ==
  /\ pages_stack' = toggle_page(pages_stack, PageMode(mode, index))
  /\ UNCHANGED <<matcher, restOfUi>>

Close(index) ==
  /\ pages_stack' = close(pages_stack, index).stack
  /\ UNCHANGED <<matcher, restOfUi>>

close_top ==
  /\ pages_stack' = IF pages_stack = <<>> THEN <<>> ELSE Tail(pages_stack)
  /\ UNCHANGED <<matcher, restOfUi>>

NextPager ==
  \/ \E mode \in Modes : \E index \in Pages \cup {NoPage} : Open(mode, index)
  \/ \E mode \in Modes : \E index \in Pages \cup {NoPage} : Toggle(mode, index)
  \/ \E index \in Pages \cup {NoPage} : Close(index)
  \/ close_top

SpecPager == InitPager /\ [][NextPager]_vars

\* ------------------------------------------------------------- the time matcher
MaxField == 1

\* Option<u32>: None is the empty set, Some(v) the set of v
Opt(v) == {v}
unwrap(o) == CHOOSE v \in o : TRUE

\* the local date-times of the model: year, month, day, hour, minute, second
DateTimes ==
  [year : 0..MaxField, month : 1..(MaxField + 1), day : 1..(MaxField + 1),
   hour : 0..MaxField, minute : 0..MaxField, second : 0..MaxField]

\* how far a condition is spelled out: a date ("day"), generate_condition_by_hours
\* ("hour"), hh:mm ("minute"), hh:mm:ss ("second")
Precisions == {"day", "hour", "minute", "second"}

\* the TimeCond that parse_term_as_timepoint makes of the timepoint t written
\* to precision p, and generate_condition_by_* of now - duration = t
TimeCond(op, t, p) ==
  [op |-> op, year |-> t.year, month |-> t.month, day |-> t.day,
   hour |-> IF p = "day" THEN {} ELSE Opt(t.hour),
   minute |-> IF p \in {"day", "hour"} THEN {} ELSE Opt(t.minute),
   second |-> IF p = "second" THEN Opt(t.second) ELSE {}]

\* TimeCond::is_matched
is_matched(con, dt) ==
  CASE con.op = "Equal" ->
         /\ con.year = dt.year /\ con.month = dt.month /\ con.day = dt.day
         /\ (con.hour = {} \/ unwrap(con.hour) = dt.hour)
         /\ (con.minute = {} \/ unwrap(con.minute) = dt.minute)
         /\ (con.second = {} \/ unwrap(con.second) = dt.second)
    [] con.op = "Earlier" ->
         /\ con.year >= dt.year /\ con.month >= dt.month /\ con.day >= dt.day
         /\ (con.hour = {} \/ unwrap(con.hour) >= dt.hour)
         /\ (con.minute = {} \/ unwrap(con.minute) >= dt.minute)
         /\ (con.second = {} \/ unwrap(con.second) >= dt.second)
    [] con.op = "Later" ->
         /\ con.year <= dt.year /\ con.month <= dt.month /\ con.day <= dt.day
         /\ (con.hour = {} \/ unwrap(con.hour) <= dt.hour)
         /\ (con.minute = {} \/ unwrap(con.minute) <= dt.minute)
         /\ (con.second = {} \/ unwrap(con.second) <= dt.second)

\* TimeMatcher::new
InitMatch ==
  /\ matcher = NoMatcher
  /\ pages_stack = <<>>
  /\ logs = <<>> /\ tags = <<>> /\ ver = 0 /\ res = NoResult /\ warm = {}
  /\ IdleRot
  /\ IdleGuard
  /\ IdleRead
  /\ IdleUpd

\* TimeMatcher::parse of one condition: "< t", "> t" or "= t" with a timepoint,
\* or "> d", "< d", "= d" with the duration d = now - t (op is the op stored)
Parse(op, t, p) ==
  /\ matcher.kind = "new"
  /\ matcher' = [kind |-> "parsed", con |-> TimeCond(op, t, p), at |-> t, precision |-> p]
  /\ UNCHANGED <<pages_stack, restOfUi>>

\* TimeMatcher::is_matched(dt)
IsMatched(dt) ==
  /\ matcher.kind # "new"
  /\ matcher' = [matcher EXCEPT !.kind = "asked"] @@ [dt |-> dt, matched |-> is_matched(matcher.con, dt)]
  /\ UNCHANGED <<pages_stack, restOfUi>>

NextMatch ==
  \/ \E op \in {"Equal", "Earlier", "Later"} : \E t \in DateTimes : \E p \in Precisions :
       Parse(op, t, p)
  \/ \E dt \in DateTimes : IsMatched(dt)

SpecMatch == InitMatch /\ [][NextMatch]_vars

\* ------------------------------------------------------------- hub properties
HubAllLines(lg) ==
  UNION {{AllLines(lg[i])[k] : k \in 1..Len(AllLines(lg[i]))} : i \in DOMAIN lg}

LineOf(id) == CHOOSE l \in HubAllLines(logs) : l.id = id

\* the log a line belongs to
SourceOf(id) == id \div 10

\* every line of the log has a timestamp, and the timestamps never decrease
SortedByTimestamp(files) ==
  /\ \A i \in DOMAIN AllLines(files) : AllLines(files)[i].good
  /\ \A i \in 1..(Len(AllLines(files)) - 1) :
       AllLines(files)[i].ts <= AllLines(files)[i + 1].ts

C3_BackwardIsReverse ==
  HubTraverse(logs, "Backward", tags, ver).out
    = Reverse(HubTraverse(logs, "Forward", tags, ver).out)

\* the lines the filter lets through
HubVisible == {l.id : l \in {x \in HubAllLines(logs) : NaiveKeeps(tags, x)}}

\* C4: a hub traversal, forward or backward, ends (no overflow, no endless
\* loop) and has then yielded every stored line that passes the filter, every
\* Bad line among them, exactly once.
C4_HubTraversalComplete ==
  res.kind \in {"hf", "hb"} =>
    /\ res.status = "done" /\ ~res.ovf
    /\ {res.out[i] : i \in DOMAIN res.out} = HubVisible
    /\ Len(res.out) = Cardinality(HubVisible)

\* ------------------------------------------------------------- rotation properties
\* the lines of the files 1..n of the directory, the oldest file first
RECURSIVE DiskConcat(_)
DiskConcat(n) == IF n = 0 THEN <<>> ELSE DiskConcat(n - 1) \o Ids(DiskLines(n))

\* nothing was rotated, every file of the directory is loaded, once, and the
\* sweep of every loaded file has arrived
FullyLoaded ==
  /\ nrot = 0
  /\ Len(log_files) = Cardinality(LogPaths)
  /\ {log_files[i].ino : i \in DOMAIN log_files} = {disk[k] : k \in LogPaths}
  /\ \A i \in DOMAIN log_files : log_files[i].swept

\* C5: with name.log.2, name.log.1 and name.log in the directory, once
\* set_want_older_log and prepare() have loaded them all and all are read to
\* the end, iterating forward from the head yields the lines of name.log.2,
\* then of name.log.1, then of name.log, and iterating backward from the tail
\* yields the reverse.
C5_Concatenation ==
  FullyLoaded =>
    /\ Ids(UnfilteredForward(log_files)) = DiskConcat(Len(fsize))
    /\ Ids(UnfilteredBackward(log_files)) = Reverse(DiskConcat(Len(fsize)))

C7_NoTaskUnderGuard ==
  main = "guard" =>
    /\ \A t \in DOMAIN tasks : ~IsRunning(tasks[t])
    /\ Len(hub_logs) = NumLogs
    /\ \A i \in DOMAIN hub_logs : hub_logs[i].name = i

\* a guard alive after tasks had updated both logs under a second token
C7_Witness ==
  /\ main = "guard" /\ stop_token >= 2
  /\ \A i \in DOMAIN hub_logs : hub_logs[i].updates >= 1

C9_ReadCancelSafe ==
  \A d \in DOMAIN reads :
    reads[d].dropped => Snapshot(states[d]) = reads[d].before

\* ------------------------------------------------------------- update properties
\* C10: a LogFile::update whose future is dropped at an await has lost no
\* event it took from the reader and has left the content, the path and the
\* tags as they were before the call.
C10_UpdateCancelSafe ==
  \A f \in DOMAIN updates :
    updates[f].dropped =>
      /\ updates[f].lost = <<>>
      /\ lfiles[f].content = updates[f].before.content
      /\ lfiles[f].path = updates[f].before.path
      /\ updates[f].tagged = {}

\* the lines of a file that ends with a newline
LinesOf(f) == LET segs == Segments(f) IN SubSeq(segs, 1, Len(segs) - 1)

\* read_file of readers_test: NewHead is pushed to the front, NewTail to the back
RECURSIVE Rebuild(_, _)
Rebuild(content, events) ==
  IF events = <<>> THEN content
  ELSE Rebuild(IF Head(events).kind = "NewHead" THEN <<Head(events).line>> \o content
               ELSE Append(content, Head(events).line),
               Tail(events))

\* the file ends with a newline and every line is shorter than the buffer
WellFormed(f) ==
  /\ f # <<>> => f[Len(f)] = NL
  /\ \A i \in DOMAIN LinesOf(f) : Len(LinesOf(f)[i]) < BufferSize

\* the backward sweep is over and every event has been taken
SweepDone ==
  /\ has_reached_head(states.head)
  /\ reads.head.pc = "idle"
  /\ tx = <<>>

\* C11: a started TailReader on an unmodified, newline-terminated file with
\* lines shorter than the buffer emits every line once; applied in arrival
\* order the events give the file's lines, and never more lines than the file has.
C11_EveryLineOnce ==
  WellFormed(file_bytes) =>
    /\ Len(received) + Len(tx) <= Len(LinesOf(file_bytes))
    /\ SweepDone => Rebuild(<<>>, received) = LinesOf(file_bytes)

\* a file of three lines read in more than two buffers, all lines received
C11_Witness ==
  /\ WellFormed(file_bytes) /\ SweepDone
  /\ Len(file_bytes) = MaxStill /\ Len(received) >= 3
  /\ \E i \in DOMAIN received : received[i].line # <<>>

\* the lines of the NewTail events sent so far, in the order they were sent
TailLines ==
  LET evs == SelectSeq(received \o tx, LAMBDA e : e.kind = "NewTail")
  IN [i \in DOMAIN evs |-> evs[i].line]

\* the complete lines among the bytes appended since start(), leaving out a
\* first piece that continues a line which was there before
AppendedLines ==
  LET start == Len(file_bytes) - tail_watch.appended
      segs == Segments(SubSeq(file_bytes, start + 1, Len(file_bytes)))
      whole == SubSeq(segs, 1, Len(segs) - 1)
  IN IF start = 0 \/ file_bytes[start] = NL THEN whole ELSE SubSeq(whole, 2, Len(whole))

IsSuffix(a, b) == Len(a) <= Len(b) /\ SubSeq(b, Len(b) - Len(a) + 1, Len(b)) = a

\* the forward task has no change left to handle and no read was dropped
TailQuiet ==
  /\ ~tail_watch.changed
  /\ reads.tail.pc = "idle"
  /\ reads.tail.drops = 0

\* C12: once the forward task has handled every notified change, every
\* complete line appended since start() has been sent as a NewTail event, once
\* and in file order.
C12_AppendedLinesDelivered ==
  TailQuiet => IsSuffix(AppendedLines, TailLines)

\* ------------------------------------------------------------- hub indexes
\* the items of a whole traversal in direction dir, from the end it starts at
ItemsOf(dir) ==
  Eval1(HubEndIndex(logs, dir, tags, ver), LAMBDA e :
    IF e.hang THEN [logs |-> e.logs, out |-> <<>>, status |-> "hang", ovf |-> e.ovf]
    ELSE HubItems(e.logs, HubIterFrom(e.logs, e.index), dir, tags, ver, <<>>, e.ovf))

\* C13: iter_forward_from(index), for the index yielded at position p of a
\* forward iteration, yields the lines of the positions p, p+1, ... of that
\* iteration, in the same order.
C13_RestartReproduces ==
  logs # <<>> =>
    Eval1(ItemsOf("Forward"), LAMBDA t :
      (t.status = "done" /\ ~t.ovf) =>
        \A p \in DOMAIN t.out :
          Eval1(HubCollect(t.logs, HubIterFrom(t.logs, t.out[p].index), "Forward", tags, ver,
                           <<>>, FALSE), LAMBDA r :
            /\ r.status = "done" /\ ~r.ovf
            /\ r.out = [i \in 1..(Len(t.out) - p + 1) |-> t.out[p + i - 1].id]))

C15_ChangeBumpsVersion ==
  [][(\E t \in DOMAIN tags : tags'[t] # tags[t]) => ver' > ver]_vars

\* ------------------------------------------------------------- last file removed
\* C16: when the only loaded file of a RotatedLog is removed and evicted, the
\* update task of that log does not panic.
C16_EmptyLogKeepsRunning == utask.pc # "panicked"

\* ------------------------------------------------------------- read error
\* file f waits for events nobody will send: its channel is empty and its
\* update future sits in reader.changed()
Starved(f) ==
  /\ channels[f] = <<>>
  /\ utask.pc = "updating"
  /\ updates[f].pc = "recv"

\* C17: a file whose tailing failed with an I/O error is removed from the file
\* list of its RotatedLog, as a file reported Removed is (safety form: it is
\* gone at the latest when every event its reader sent has been taken).
C17_ReadErrorRemovesFile ==
  \A f \in DOMAIN lfiles : (lfiles[f].failed /\ Starved(f)) => lfiles[f].removed

\* ------------------------------------------------------------- deleted file
\* C18: when the watched file is deleted or its link cannot be read, the poll
\* emits Removed, never Renamed, and stops: no watcher takes the link of a
\* deleted file, "<old path> (deleted)", for the new name of its file.
C18_DeletedIsRemoved ==
  \A i \in DOMAIN log_files :
    /\ ~IsDeleted(log_files[i].raw_path)
    /\ log_files[i].meta = "renamed" => ~IsDeleted(log_files[i].meta_path)

\* ------------------------------------------------------------- content order
\* C19: after any sequence of push_front and push_back calls, forward
\* iteration from the head yields the front-pushed lines in reverse push order
\* followed by the back-pushed lines in push order, and backward iteration
\* from the tail yields the reverse of that.
C19_PushOrder ==
  res.kind = "push" =>
    /\ Ids(iter_forward_from_head(logs[1][1].content)) = res.out
    /\ Ids(iter_backward_from_tail(logs[1][1].content)) = Reverse(res.out)

\* a content of at least three chunks, filled from both ends, whose first
\* chunk is a full reversed one
C19_Witness ==
  /\ res.kind = "push"
  /\ Len(res.out) = MaxPushes
  /\ Len(logs[1][1].content) >= 3
  /\ logs[1][1].content[1].reversed /\ is_full(logs[1][1].content[1])
  /\ ~logs[1][1].content[Len(logs[1][1].content)].reversed
  /\ Ids(iter_forward_from_head(logs[1][1].content)) = res.out

\* ------------------------------------------------------------- step_index
\* the steps tried: every n that can stay inside the log, and one beyond
StepRange == (0 - MaxLines - 1)..(MaxLines + 1)

\* the indexes of a content that name a line
ContentIndexes(chunks) ==
  {i \in {CIndex(c, l) : c \in 0..(Len(chunks) - 1), l \in 0..(ChunkCapacity - 1)} :
     ContentHas(chunks, i)}

\* the indexes of a log that name a line
RotatedIndexes(files) ==
  UNION {{RIndex(f, i) : i \in ContentIndexes(files[f + 1].content)} : f \in 0..(Len(files) - 1)}

ContentRoundTrip(chunks, idx, n) ==
  Eval1(ContentStepIndex(chunks, idx, n), LAMBDA r :
    r.ok => Eval1(ContentStepIndex(chunks, r.index, 0 - n), LAMBDA b : b.ok /\ b.index = idx))

RotatedRoundTrip(files, idx, n) ==
  Eval1(RotatedStepIndex(files, idx, n), LAMBDA r :
    r.ok => Eval1(RotatedStepIndex(files, r.index, 0 - n), LAMBDA b : b.ok /\ b.index = idx))

\* C20: for LogFileContent and for RotatedLog, whenever idx is a valid index
\* and step_index(idx, n) returns Ok(j), step_index(j, -n) returns Ok(idx).
C20_StepRoundTrip ==
  \A k \in DOMAIN logs :
    /\ \A idx \in RotatedIndexes(logs[k]) : \A n \in StepRange : RotatedRoundTrip(logs[k], idx, n)
    /\ \A f \in DOMAIN logs[k] : \A idx \in ContentIndexes(logs[k][f].content) :
         \A n \in StepRange : ContentRoundTrip(logs[k][f].content, idx, n)

\* a log of two files with lines, the first of more than one chunk, that has
\* been iterated: a step from its first line to the last line of the log
\* succeeds
C20_Witness ==
  /\ res.kind = "fb"
  /\ Len(logs) = 1 /\ Len(logs[1]) = 2
  /\ Len(logs[1][1].content) >= 2 /\ logs[1][2].content # <<>>
  /\ RotatedStepIndex(logs[1], RotatedFirstIndex(logs[1]), MaxLines - 1).ok
  /\ RotatedStepIndex(logs[1], RotatedFirstIndex(logs[1]), MaxLines - 1).index
       = RotatedLastIndex(logs[1])
  /\ RotatedRoundTrip(logs[1], RotatedFirstIndex(logs[1]), MaxLines - 1)

\* ------------------------------------------------------------- remaining delta
\* the number of lines of a content, and of those before the line of an index
RECURSIVE ContentTotal(_)
ContentTotal(chunks) ==
  IF chunks = <<>> THEN 0 ELSE Len(Head(chunks).lines) + ContentTotal(Tail(chunks))

ContentPos(chunks, idx) ==
  ContentTotal(SubSeq(chunks, 1, idx.chunk_index)) + idx.line_index

\* the steps tried on a content that is being filled
PushRange == (0 - MaxPushes - 2)..(MaxPushes + 2)

\* the steps that can be taken from idx to the last line in the direction of n
StepsLeft(chunks, idx, n) ==
  IF n >= 0 THEN ContentTotal(chunks) - 1 - ContentPos(chunks, idx) ELSE ContentPos(chunks, idx)

\* C21: a step_index(idx, n) that runs out of lines returns Err(r) with r of
\* the sign of n and |r| = |n| - d, d the steps possible from idx; next_nth(n)
\* on a fresh iterator returns Err with the number of missing lines, in both
\* directions.
C21_RemainingDelta ==
  res.kind = "push" =>
    /\ \A idx \in ContentIndexes(logs[1][1].content) : \A n \in PushRange :
         Eval2(ContentStepIndex(logs[1][1].content, idx, n),
               StepsLeft(logs[1][1].content, idx, n), LAMBDA r, d :
           IF n >= 0 /\ n > d THEN ~r.ok /\ r.rem = n - d
           ELSE IF n < 0 /\ 0 - n > d THEN ~r.ok /\ r.rem = n + d
           ELSE r.ok)
    /\ \A n \in 0..(MaxPushes + 2) :
         n >= ContentTotal(logs[1][1].content) =>
           /\ do_next_nth(logs[1][1].content,
                          ContentIterFrom(logs[1][1].content, ContentFirstIndex(logs[1][1].content)),
                          n) = [ok |-> FALSE, err |-> n + 1 - ContentTotal(logs[1][1].content)]
           /\ do_next_nth(logs[1][1].content,
                          ContentIterFrom(logs[1][1].content, ContentLastIndex(logs[1][1].content)),
                          0 - n) = [ok |-> FALSE, err |-> n + 1 - ContentTotal(logs[1][1].content)]

\* ------------------------------------------------------------- pages per side
\* C22: the open-page stack records at most one Left page, at most one Right
\* page and at most one Full page.
C22_OnePagePerSide ==
  \A mode \in Modes :
    Cardinality({i \in DOMAIN pages_stack : pages_stack[i].mode = mode}) <= 1

\* ------------------------------------------------------------- time conditions
\* a date-time cut to a precision, as a number that grows with time
Instant(t, p) ==
  LET r == MaxField + 2
      h == IF p = "day" THEN 0 ELSE t.hour
      mi == IF p \in {"day", "hour"} THEN 0 ELSE t.minute
      sec == IF p = "second" THEN t.second ELSE 0
  IN ((((t.year * r + t.month) * r + t.day) * r + h) * r + mi) * r + sec

\* C23: a condition "< T" ("> T") matches a timestamp exactly when the
\* timestamp, cut to T's precision, is not later (not earlier) than T; a
\* duration condition is the same comparison with now minus the duration.
C23_ChronologicalCompare ==
  matcher.kind = "asked" =>
    /\ matcher.con.op = "Earlier" =>
         (matcher.matched <=> Instant(matcher.dt, matcher.precision)
                                <= Instant(matcher.at, matcher.precision))
    /\ matcher.con.op = "Later" =>
         (matcher.matched <=> Instant(matcher.dt, matcher.precision)
                                >= Instant(matcher.at, matcher.precision))

\* ------------------------------------------------------------- filtered iterations from any index
\* next() called `count` times on a FilteredIter, which is then dropped
\* ("dropped"), unless a call returns None first ("done").
RECURSIVE FilteredTake(_, _, _, _, _, _, _, _)
FilteredTake(files0, fi0, dir, tg, v, out0, ovf0, count) ==
  Eval3(files0, out0, ovf0, LAMBDA files, out, ovf :
  IF count = 0
  THEN [files |-> files, fi |-> fi0, out |-> out, status |-> "dropped", ovf |-> ovf]
  ELSE Eval1(FilteredNext(files, fi0, dir, tg, v), LAMBDA r :
    IF r.hang
    THEN [files |-> r.files, fi |-> r.fi, out |-> out, status |-> "hang", ovf |-> ovf \/ r.ovf]
    ELSE IF ~r.item.some
    THEN [files |-> r.files, fi |-> r.fi, out |-> out, status |-> "done", ovf |-> ovf \/ r.ovf]
    ELSE FilteredTake(r.files, r.fi, dir, tg, v,
                      Append(out, RotatedGet(r.files, r.item.idx).id), ovf \/ r.ovf, count - 1)))

MaxIters == 3

\* update_version() has been called once and the tags set: no link is valid
InitPartial ==
  /\ \E sh \in Shapes : \E ls \in [1..SumLines(sh) -> FilterKinds] :
       /\ logs = <<BuildFiles(sh, ls, 0)>>
       /\ tags \in [TagsOf(ls) -> BOOLEAN]
  /\ ver = 1
  /\ res = NoResult
  /\ warm = {}
  /\ IdleUi
  /\ IdleRot
  /\ IdleGuard
  /\ IdleRead
  /\ IdleUpd

\* the iterations run so far
Iters == IF res.kind = "from" THEN res.iters ELSE 0

\* filtered_iter_forward_from(tags, index) / filtered_iter_backward_from(tags,
\* index), polled `count` times
FilteredFrom(dir, index, count) ==
  /\ Iters < MaxIters
  /\ \E r \in {FilteredTake(logs[1], FilteredNew(logs[1], index), dir, tags, ver, <<>>, FALSE, count)} :
     /\ logs' = <<r.files>>
     /\ res' = [kind |-> "from", out |-> r.out, status |-> r.status, ovf |-> r.ovf,
                warm |-> dir \in warm, dir |-> dir, index |-> index, count |-> count,
                iters |-> Iters + 1]
     /\ warm' = warm \cup {dir}
     /\ UNCHANGED <<tags, ver, restOfStore>>

\* an iterator is dropped after one line or polled until it returns None
NextPartial ==
  \E dir \in {"Forward", "Backward"} : \E index \in RotatedIndexes(logs[1]) :
    \E count \in {1, MaxLines + 1} : FilteredFrom(dir, index, count)

SpecPartial == InitPartial /\ [][NextPartial]_vars

\* a FilteredIter started at index is polled until next() returns None, and
\* then once more, as find_extremum does with the exhausted iterator of a
\* source on every later step of the merge
PollExhausted(dir, index) ==
  /\ Iters < MaxIters - 1
  /\ \E t \in {FilteredTake(logs[1], FilteredNew(logs[1], index), dir, tags, ver, <<>>, FALSE,
                            MaxLines + 1)} :
     /\ t.status = "done"
     /\ \E r \in {FilteredNext(t.files, t.fi, dir, tags, ver)} :
        /\ logs' = <<r.files>>
        /\ res' = [kind |-> "from", out |-> t.out, status |-> "fused", ovf |-> t.ovf,
                   warm |-> dir \in warm, dir |-> dir, index |-> index, count |-> MaxLines + 1,
                   iters |-> Iters + 1,
                   again |-> [some |-> r.item.some, changed |-> r.files # t.files,
                              ovf |-> r.ovf, hang |-> r.hang]]
        /\ warm' = warm \cup {dir}
        /\ UNCHANGED <<tags, ver, restOfStore>>

NextFused ==
  \E dir \in {"Forward", "Backward"} : \E index \in RotatedIndexes(logs[1]) :
    PollExhausted(dir, index)

SpecFused == InitPartial /\ [][NextFused]_vars

\* the first n elements of a sequence
Prefix(sq, n) == SubSeq(sq, 1, IF n < Len(sq) THEN n ELSE Len(sq))

\* what the naive filter keeps of the unfiltered iteration from an index on
NaiveFrom(files, tg, index, dir) ==
  Ids(NaiveFilter(tg, PlainCollect(files, IterFrom(files, index), dir)))

\* C24: at a fixed version a filtered iteration started at any valid index
\* yields, in order, exactly the lines from that index on that pass the filter
\* (the first `count` of them when it is dropped after `count` calls), whatever
\* filtered iterations, full or partial, ran before at that version.
C24_CacheKeepsOutput ==
  res.kind = "from" =>
    /\ res.status \in {"done", "dropped"} /\ ~res.ovf
    /\ res.out = Prefix(NaiveFrom(logs[1], tags, res.index, res.dir), res.count)
    /\ res.status = "done" <=> res.count > Len(NaiveFrom(logs[1], tags, res.index, res.dir))

\* the link of the line at idx says where the next visible line is
LinkIsExact(files, tg, idx, dir) ==
  LET skip == get_link(RotatedGet(files, idx), dir).skip IN
  /\ \A k \in 1..(skip - 1) :
       Eval1(RotatedStepIndex(files, idx, k * One(dir)), LAMBDA r :
         r.ok => ~NaiveKeeps(tg, RotatedGet(files, r.index)))
  /\ Eval1(RotatedStepIndex(files, idx, skip * One(dir)), LAMBDA r :
       r.ok => NaiveKeeps(tg, RotatedGet(files, r.index)))

\* C25: at a version V >= 1 every Good line whose link for a direction carries
\* V has, in that direction, only filtered lines nearer than `skip` steps and
\* a visible line, or no line, `skip` steps away.
C25_LinkIsDistance ==
  ver >= 1 =>
    \A idx \in RotatedIndexes(logs[1]) : \A dir \in {"Forward", "Backward"} :
      (RotatedGet(logs[1], idx).good /\ get_link(RotatedGet(logs[1], idx), dir).ver = ver)
        => LinkIsExact(logs[1], tags, idx, dir)

\* C26: a next() call on a FilteredIter that has returned None returns None
\* again, writes no link and does not take the skip counter below zero.
C26_Fused ==
  (res.kind = "from" /\ res.status = "fused") =>
    /\ ~res.again.hang /\ ~res.again.some
    /\ ~res.again.changed
    /\ ~res.again.ovf

\* C27: forward iteration from first_index() and backward iteration from
\* last_index() visit every line of every loaded file, also when some loaded
\* file holds no line.
C27_CrossesEmptyFiles ==
  \A k \in DOMAIN logs :
    /\ Ids(UnfilteredForward(logs[k])) = Ids(AllLines(logs[k]))
    /\ Ids(UnfilteredBackward(logs[k])) = Reverse(Ids(AllLines(logs[k])))

\* C28: when try_load_older_logs is given the index of the first visible line
\* of the merged stream, before which no source has a visible line, every
\* source that holds lines is asked for its older file.
C28_AllSourcesWantOlder ==
  res.kind = "older" =>
    \A i \in DOMAIN logs : logs[i] # <<>> => res.want[i]

\* iter_at(index): the ids of the forward and of the backward iterator, the
\* forward one consumed first
IterAt(lg, index) ==
  Eval1(HubCollect(lg, HubIterFrom(lg, index), "Forward", tags, ver, <<>>, FALSE), LAMBDA f :
  Eval1(HubCollect(f.logs, HubIterFrom(f.logs, index), "Backward", tags, ver, <<>>, FALSE),
        LAMBDA b :
    [forward |-> f.out, backward |-> b.out,
     ok |-> f.status = "done" /\ b.status = "done" /\ ~f.ovf /\ ~b.ovf]))

\* C29: for the index yielded with the line x at position p of a forward
\* iteration, the forward iterator of iter_at(index) yields x and the lines
\* after it, the backward iterator x and the lines before it, latest first;
\* so the two share x only and cover every visible line.
C29_IterAtSplits ==
  logs # <<>> =>
    Eval1(ItemsOf("Forward"), LAMBDA t :
      (t.status = "done" /\ ~t.ovf) =>
        \A p \in DOMAIN t.out :
          Eval1(IterAt(t.logs, t.out[p].index), LAMBDA r :
            /\ r.ok
            /\ r.forward = [i \in 1..(Len(t.out) - p + 1) |-> t.out[p + i - 1].id]
            /\ r.backward = [i \in 1..p |-> t.out[p + 1 - i].id]))

\* C30: every call of data() returns a guard in the end: once the stop token
\* is cancelled every task ends without a panic and is joined.
C30_DataReturnsGuard == (main = "stopping") ~> (main = "guard")

\* C31: whatever the interleaving of rotations, polls of the watchers,
\* deliveries of Renamed events, prepare() and requests for older files, no
\* file is loaded twice.
C31_FilesDistinct ==
  \A i, j \in DOMAIN log_files : i # j => log_files[i].ino # log_files[j].ino

\* C32: with name.log and name.log.1 .. name.log.N in the directory, the
\* requests for older files load name.log.1, then name.log.2, and so on: the
\* loaded files are, from the back, name.log, name.log.1, name.log.2, ...
C32_NumericOrder ==
  \A i \in DOMAIN log_files : log_files[i].path = Len(log_files) - i

\* C33: once the forward task has handled the change reported last, no
\* complete line is left unread behind its offset: every newline appended
\* before the report has been read, however many bytes were appended.
C33_ReportReadsAll ==
  (TailQuiet /\ tail_watch.appended > 0) =>
    \A i \in (states.tail.pos + 1)..Len(file_bytes) : file_bytes[i] # NL


\* C34: when TailReader::open has made both states, the backward sweep and the
\* forward follow start from the same byte offset, also when the file has
\* grown between the making of the head state and of the tail state.
C34_SameStartOffset ==
  (DOMAIN states = {"head", "tail"} /\ reads.head.pc = "open") =>
    states.head.last_position = states.tail.last_position


\* C35: TailReader::stop always completes: once it has cancelled the token
\* and waits for the head task, both tasks end and stop returns, whatever the
\* event channel holds.
C35_StopCompletes == (reads.stop.pc = "join_head") ~> (reads.stop.pc = "returned")


\* the Content answers changed() has given
ContentReturns == Cardinality({i \in DOMAIN received : received[i] = "Content"})

\* C36: no content change is lost by the Watcher: after a modify or
\* close-after-write notification, changed() answers Content once more, also
\* when notifications of ignored kinds arrive before changed() reads the channel.
C36_NoContentChangeLost ==
  \A n \in 0..MaxNotify :
    (tail_watch.changed /\ tail_watch.kind \in ContentKinds /\ ContentReturns = n)
      ~> (ContentReturns > n)


\* the tags of the Good lines stored in the files of the log
StoredTags ==
  UNION {{lfiles[f].content[i].tag : i \in DOMAIN lfiles[f].content} : f \in DOMAIN lfiles} \ {"-"}

\* C37: the tag of every stored Good line is in the tag registry, and while no
\* file has been taken out of the log the registry holds exactly the tags of
\* the stored Good lines.
C37_TagsRegistered ==
  /\ \A f \in DOMAIN lfiles : \A i \in DOMAIN lfiles[f].content :
       (~lfiles[f].removed /\ lfiles[f].content[i].tag # "-") =>
         lfiles[f].content[i].tag \in data_board.tags
  /\ (\A f \in DOMAIN lfiles : lfiles[f].content # <<>> => ~lfiles[f].removed) =>
       data_board.tags = StoredTags

\* a Good line and a line that does not parse are stored in a file of the log
C37_Witness ==
  \E f \in DOMAIN lfiles :
    /\ ~lfiles[f].removed
    /\ \E i, j \in DOMAIN lfiles[f].content :
         lfiles[f].content[i].tag = "ta" /\ lfiles[f].content[j].tag = "-"


\* the files with the link of direction dir of every Good line put back to
\* the default: what is left is everything else the files hold
WithoutLink(files, dir) ==
  [f \in DOMAIN files |->
     [content |->
        [c \in DOMAIN files[f].content |->
           [files[f].content[c] EXCEPT !.lines =
              [l \in DOMAIN files[f].content[c].lines |->
                 IF files[f].content[c].lines[l].good
                   THEN (IF dir = "Forward"
                           THEN [files[f].content[c].lines[l] EXCEPT !.fl = NoLink]
                           ELSE [files[f].content[c].lines[l] EXCEPT !.bl = NoLink])
                   ELSE files[f].content[c].lines[l]]]]]]

\* the lines the files of the log hold
StoredLines ==
  UNION {UNION {{logs[1][f].content[c].lines[l] : l \in DOMAIN logs[1][f].content[c].lines} :
                  c \in DOMAIN logs[1][f].content} : f \in DOMAIN logs[1]}

\* C38: a filtered iteration in one direction changes nothing but the link of
\* that direction on Good lines: the fields of every line, the links of the
\* other direction, the Bad lines and the places of the lines stay as they are.
C38_OnlyOwnLinks ==
  [][/\ res'.kind = "ff" => WithoutLink(logs'[1], "Forward") = WithoutLink(logs[1], "Forward")
     /\ res'.kind = "fb" => WithoutLink(logs'[1], "Backward") = WithoutLink(logs[1], "Backward")
     /\ res'.kind = "none" => logs' = logs]_vars

\* a forward pass has written forward links while a Bad line and backward
\* links of an earlier backward pass are stored
C38_Witness ==
  /\ res.kind = "ff"
  /\ \E l \in StoredLines : l.good /\ l.fl # NoLink /\ l.fl.ver = ver
  /\ \E l \in StoredLines : l.good /\ l.bl # NoLink
  /\ \E l \in StoredLines : ~l.good


\* C39: whatever data() calls, guard drops and close() calls came before, a
\* guard exposes exactly the logs given to open(), each at its position.
C39_GuardExposesLogs ==
  main = "guard" =>
    /\ Len(hub_logs) = NumLogs
    /\ \A i \in 1..NumLogs : hub_logs[i].name = i


\* LogController::ensure_cursor_valid on the index kept from the last frame,
\* for a hub of one log with one file and every tag shown: the index of the
\* first line iter_at yields downwards, the kept index if there is none
ensure_cursor_valid(chunks, index) ==
  LET r == ContentStepIndex(chunks, index, 0) IN IF r.ok THEN r.index ELSE index

\* C40: an index kept from one frame names the same line in the next frame,
\* also after lines were pushed to the front of the file in between.
C40_IndexKeepsLine ==
  [][\A index \in ContentIndexes(logs[1][1].content) :
       LET kept == ensure_cursor_valid(logs'[1][1].content, index)
       IN /\ ContentHas(logs'[1][1].content, kept)
          /\ ContentGet(logs'[1][1].content, kept).id = ContentGet(logs[1][1].content, index).id]_vars

====
